---- MODULE Spec2Model ----
(***************************************************************************)
(* A model of the model loader and the texture cache of                    *)
(* overviewer_core/textures.py (class Textures).                           *)
(*                                                                         *)
(* Python dicts are functions whose DOMAIN is the set of keys present, so  *)
(* `'parent' in model` is "parent" \in DOMAIN model and `del` shrinks the   *)
(* domain.  Python lists are objects: the element list of a model is a     *)
(* reference into the heap `lists`, so that `a['elements'] = b['elements']`*)
(* shares one list and `+=` extends a list in place.                       *)
(* A string 'ns:rest' is the pair <<ns, rest>> and '#name' is <<"#", name>>.*)
(***************************************************************************)
EXTENDS Integers, Sequences, FiniteSets, TLC

VARIABLES
    assets,         \* [instance -> [model name -> what find_file + json.load give]]
    models,         \* Textures.models, the class attribute: [name -> model dict]
    lists,          \* heap of element lists: [list id -> sequence of elements]
    stack,          \* load_model frames suspended at the recursive call (line 881)
    mode,           \* "idle", "call" (a recursive call is about to run), "return"
    arg,            \* mode "call": the callee's modelname; "return": the name returned
    cur,            \* the Textures instance running the call in flight
    top,            \* the modelname of the outermost load_model call
    ret,            \* outcome of the last outermost call
    ops,            \* what the outermost call in flight (or last finished) has done
    nload,          \* [name -> number of times json.load stored the model]
    nmerge,         \* [name -> number of parent merges]
    nfixup,         \* [name -> number of normalize_model fixups applied]
    fetchedBy,      \* [name -> instance whose find_file produced the cached model]
    loaded,         \* names whose outermost load_model has returned a model
    again,          \* the outermost call in flight asks for a name in `loaded`
    files,          \* [texture file -> what find_file and Image.open give]
    texture_cache,  \* self.texture_cache: [filename -> image or cached exception]
    nfind,          \* [texture file -> number of find_file calls]
    ndecode,        \* [texture file -> number of Image.open calls]
    tret,           \* outcome of the last texture request
    firstTexture,   \* [filename -> first image load_image_texture returned]
    firstError,     \* [filename -> first exception a request raised]
    textureset,     \* the `textures` table find_texture_from_model resolves in
    face,           \* the argument of the find_texture_from_model frame on top
    fdepth,         \* find_texture_from_model frames below the one on top
    fmode,          \* "idle" or "resolve" (a resolution is in flight)
    rotation,       \* self.rotation: the north direction the map is rendered with
    blockstate,     \* the blockstate dict of the face being placed
    elem,           \* the element of the face being placed
    direction,      \* the side of the element being drawn
    fret,           \* what the last face computation returned
    rret,           \* outcome of the last call of a block builder
    firstOrder,     \* [modelname -> element order of its first rendering]
    jars,           \* self.jars: the paths of the open jars and packs, in order
    disk,           \* which of the places find_file looks in hold which files
    sret,           \* outcome of the last find_file call
    blockmap_generators,    \* the (blockid, data) pairs a renderer is registered for
    block_models,           \* ['minecraft:' + model -> (blockid, 0)]
    next_unclaimed_id,      \* the counter the ids of unbound models come from
    known_blocks, used_datas, max_blockid, max_data,
    transparent_blocks, solid_blocks,   \* what @material collects
    discovered,     \* the models of find_models the loop has yet to visit
    uret,           \* outcome of the last turn of the loop of unbound_models
    canvas,         \* img: the pixels of the image a builder composes
    builder,        \* the builder at work and its position
    cret            \* the image the last builder returned

mvars == <<assets, models, lists, stack, mode, arg, cur, top, ret, ops,
           nload, nmerge, nfixup, fetchedBy, loaded, again>>

tvars == <<files, texture_cache, nfind, ndecode, tret, firstTexture, firstError,
           textureset, face, fdepth, fmode>>

gvars == <<rotation, blockstate, elem, direction, fret, rret, firstOrder>>

bvars == <<blockmap_generators, block_models, next_unclaimed_id, known_blocks,
           used_datas, max_blockid, max_data, transparent_blocks, solid_blocks,
           discovered, uret>>

pvars == <<canvas, builder, cret>>

xvars == <<jars, disk, sret, bvars, pvars>>

vars == <<mvars, tvars, gvars, xvars>>

-----------------------------------------------------------------------------
(* Bounds *)

\* load_model frames the model follows before it cuts the recursion off
MaxDepth == 4
\* json.load stores per model name the model follows
MaxLoads == 2
\* find_file calls per texture file the model follows
MaxLookups == 2
\* frames at which the interpreter raises RecursionError (the interpreter's
\* sys.getrecursionlimit() is 1000; the model scales it down)
RecursionLimit == 20
\* the "small fixed depth" within which a chain of references must resolve
ResolveDepth == 16

-----------------------------------------------------------------------------
(* The universe of model descriptions *)

Root == "block/block"
Cube == "block/cube"
Loom == "block/loom"
Names == {Root, Cube, Loom}
Insts == {1, 2}

Ref(k) == <<"#", k>>
Loc(ns, p) == <<ns, p>>

\* re.sub('.*:', '', s): drop everything up to the last colon
StripNamespace(s) == s[2]

AllFaces == {"north", "south", "east", "west", "up", "down"}
SideFaces == {"north", "south", "east", "west"}

\* one cuboid of model n; `faces` maps the faces present to their face dict
Element(n, k, fs) ==
    [id |-> <<n, k>>, faces |-> [f \in fs |-> [texture |-> Ref("all")]]]

\* the 'textures' tables a description of model n may declare
TextureChoices(n) ==
    { [all |-> Loc("minecraft", n)],
      [side |-> Ref("all")] }

\* the 'elements' lists a description of model n may declare
ElementChoices(n) ==
    IF n = Loom
    THEN { <<Element(n, 1, AllFaces)>>,
           <<Element(n, 1, SideFaces), Element(n, 2, AllFaces)>> }
    ELSE { <<Element(n, 1, AllFaces)>> }

ParentChoices == {Loc("minecraft", p) : p \in Names}

\* a JSON object with the optional keys parent, textures, elements
JsonChoices(n, P, E) ==
    {p @@ t @@ e : p \in P, e \in E,
                   t \in {<<>>} \cup {[textures |-> x] : x \in TextureChoices(n)}}

Missing == [kind |-> "missing"]
Malformed == [kind |-> "malformed"]
Json(j) == [kind |-> "json", json |-> j]

NoKey == {<<>>}
Parents == {[parent |-> p] : p \in ParentChoices}
Elements(n) == {[elements |-> e] : e \in ElementChoices(n)}

\* what find_file and json.load may give for the description of model n
AssetChoices(n) ==
    IF n = Root
    THEN {Missing} \cup {Json(j) : j \in JsonChoices(n, NoKey, Elements(n))}
    ELSE IF n = Cube
    THEN {Missing, Malformed} \cup
         {Json(j) : j \in JsonChoices(n, NoKey \cup Parents, NoKey \cup Elements(n))}
    ELSE {Missing} \cup
         {Json(j) : j \in JsonChoices(n, NoKey \cup Parents, NoKey \cup Elements(n))}

-----------------------------------------------------------------------------
(* dict and list helpers *)

\* dict.update(other): the entries of `other` replace those of `d`
DictUpdate(d, other) ==
    [k \in DOMAIN d \cup DOMAIN other |->
        IF k \in DOMAIN other THEN other[k] ELSE d[k]]

\* del d[key]
DictDel(d, key) == [k \in DOMAIN d \ {key} |-> d[k]]

\* d[key] = value
DictSet(d, key, value) == [k \in DOMAIN d \cup {key} |->
                              IF k = key THEN value ELSE d[k]]

\* the list a deepcopy of model n is given
CopyId(n) == <<"copy", n>>
\* the list json.load builds for the description of model n
JsonId(n) == <<"json", n>>
ListIds == {JsonId(n) : n \in Names} \cup {CopyId(n) : n \in Names}

\* the elements of a cached model dict, read through the heap
ElementsOf(ls, m) == IF "elements" \in DOMAIN m THEN ls[m.elements] ELSE <<>>

-----------------------------------------------------------------------------
(* The part of the state load_model works on, as one record *)

Heap == [models |-> models, lists |-> lists, nload |-> nload,
         nmerge |-> nmerge, nfixup |-> nfixup, fetchedBy |-> fetchedBy,
         ops |-> ops]

\* lines 875-878: self.models[modelname] = json.load(fileobj); the JSON
\* array becomes a fresh list object
StoreJson(h, i, n) ==
    LET j == assets[i][n].json
        m == IF "elements" \in DOMAIN j THEN DictSet(j, "elements", JsonId(n)) ELSE j
    IN  [h EXCEPT !.models = (n :> m) @@ h.models,
                  !.lists = IF "elements" \in DOMAIN j
                            THEN [h.lists EXCEPT ![JsonId(n)] = j.elements]
                            ELSE h.lists,
                  !.nload = [h.nload EXCEPT ![n] = @ + 1],
                  !.fetchedBy = [h.fetchedBy EXCEPT ![n] = i],
                  !.ops = h.ops \cup {<<"fetch", n>>}]

\* MergeParent with the two element lists joined the other way round
MergeParentFirst(h, n, p) ==
    LET child == h.models[n]
        parent == h.models[p]
        c1 == IF "textures" \in DOMAIN parent
              THEN DictSet(child, "textures",
                           DictUpdate(child.textures, parent.textures))
              ELSE child
        ls == IF "elements" \in DOMAIN parent /\ "elements" \in DOMAIN child
              THEN [h.lists EXCEPT ![child.elements] =
                        h.lists[parent.elements] \o @]
              ELSE h.lists
        c2 == IF "elements" \in DOMAIN parent /\ "elements" \notin DOMAIN child
              THEN DictSet(c1, "elements", parent.elements)
              ELSE c1
    IN  IF "textures" \in DOMAIN parent /\ "textures" \notin DOMAIN child
        THEN [exc |-> "KeyError", h |-> h]
        ELSE [exc |-> "",
              h |-> [h EXCEPT !.models = [@ EXCEPT ![n] = DictDel(c2, "parent")],
                              !.lists = ls,
                              !.nmerge = [@ EXCEPT ![n] = @ + 1],
                              !.ops = @ \cup {<<"merge", n>>}]]

\* lines 882-889: merge the loaded parent p into models[n].  The result is
\* [exc, h]: exc is "" or the exception raised, h the heap left behind.
MergeParent(h, n, p) ==
    LET child == h.models[n]
        parent == h.models[p]
        noTable == "textures" \in DOMAIN parent /\ "textures" \notin DOMAIN child
        c1 == IF "textures" \in DOMAIN parent
              THEN DictSet(child, "textures",
                           DictUpdate(child.textures, parent.textures))
              ELSE child
        ls == IF "elements" \in DOMAIN parent /\ "elements" \in DOMAIN child
              THEN [h.lists EXCEPT ![child.elements] =
                        @ \o h.lists[parent.elements]]
              ELSE h.lists
        c2 == IF "elements" \in DOMAIN parent /\ "elements" \notin DOMAIN child
              THEN DictSet(c1, "elements", parent.elements)
              ELSE c1
    IN  IF noTable
        THEN [exc |-> "KeyError", h |-> h]
        ELSE [exc |-> "",
              h |-> [h EXCEPT !.models = [@ EXCEPT ![n] = DictDel(c2, "parent")],
                              !.lists = ls,
                              !.nmerge = [@ EXCEPT ![n] = @ + 1],
                              !.ops = @ \cup {<<"merge", n>>}]]

\* copy.deepcopy(self.models[modelname]): a new dict with a new element list
DeepCopy(h, n) ==
    LET m == h.models[n]
    IN  IF "elements" \in DOMAIN m
        THEN [h EXCEPT !.models = [@ EXCEPT ![n] = DictSet(m, "elements", CopyId(n))],
                       !.lists = [@ EXCEPT ![CopyId(n)] = h.lists[m.elements]]]
        ELSE h

\* elements[0]['faces'][f][key] = value on the model's own list
SetFace(h, n, f, key, value) ==
    [h EXCEPT !.lists = [@ EXCEPT ![h.models[n].elements] =
        [@ EXCEPT ![1] = [@ EXCEPT !.faces =
            [@ EXCEPT ![f] = DictSet(@, key, value)]]]]]

\* lines 895-918: the fixup table; of its names the universe holds block/loom
NormalizeModel(h, n) ==
    IF n # Loom THEN [exc |-> "", h |-> h]
    ELSE LET c == DeepCopy(h, n)
             m == c.models[n]
         IN  IF "elements" \notin DOMAIN m
                 \/ "up" \notin DOMAIN c.lists[m.elements][1].faces
             THEN [exc |-> "KeyError", h |-> c]
             ELSE LET u == SetFace(c, n, "up", "texturerotation", 180)
                  IN  IF "down" \notin DOMAIN c.lists[m.elements][1].faces
                      THEN [exc |-> "KeyError", h |-> u]
                      ELSE [exc |-> "",
                            h |-> [SetFace(u, n, "down", "texturerotation", 180)
                                     EXCEPT !.nfixup = [@ EXCEPT ![n] = @ + 1],
                                            !.ops = @ \cup {<<"fixup", n>>}]]

-----------------------------------------------------------------------------
(* load_model, one frame at a time.  A step yields [h, stack, mode, arg, exc] *)

\* the frame of n returns self.models[n] to its caller (lines 873, 892)
Returned(h, n, stk) ==
    [h |-> h, stack |-> stk, arg |-> n, exc |-> "",
     mode |-> IF stk = <<>> THEN "idle" ELSE "return"]

\* an exception leaves every load_model frame: none of them catches
Raised(h, e) == [h |-> h, stack |-> <<>>, arg |-> "", exc |-> e, mode |-> "idle"]

\* lines 891-892: fix up and return
Finish(h, n, stk) ==
    LET z == NormalizeModel(h, n)
    IN  IF z.exc # "" THEN Raised(z.h, z.exc) ELSE Returned(z.h, n, stk)

\* Enter without the look into the cache of lines 872-873
EnterUnchecked(h, i, n, stk) ==
    IF assets[i][n].kind = "missing" THEN Raised(h, "TextureException")
    ELSE IF assets[i][n].kind = "malformed" THEN Raised(h, "JSONDecodeError")
    ELSE LET s == StoreJson(h, i, n)
         IN  IF "parent" \in DOMAIN s.models[n]
             THEN [h |-> s, stack |-> Append(stk, n), mode |-> "call",
                   arg |-> StripNamespace(s.models[n].parent), exc |-> ""]
             ELSE Finish(s, n, stk)

\* lines 872-881 of the call load_model(n) by instance i under the frames
\* stk, and lines 891-892 when the description has no parent
Enter(h, i, n, stk) ==
    IF n \in DOMAIN h.models THEN Returned(h, n, stk)
    ELSE IF assets[i][n].kind = "missing" THEN Raised(h, "TextureException")
    ELSE IF assets[i][n].kind = "malformed" THEN Raised(h, "JSONDecodeError")
    ELSE LET s == StoreJson(h, i, n)
         IN  IF "parent" \in DOMAIN s.models[n]
             THEN [h |-> s, stack |-> Append(stk, n), mode |-> "call",
                   arg |-> StripNamespace(s.models[n].parent), exc |-> ""]
             ELSE Finish(s, n, stk)

\* lines 882-892 of the frame on top of stk, whose recursive call returned
\* self.models[p]
Resume(h, stk, p) ==
    LET n == stk[Len(stk)]
        m == MergeParent(h, n, p)
    IN  IF m.exc # "" THEN Raised(m.h, m.exc)
        ELSE Finish(m.h, n, SubSeq(stk, 1, Len(stk) - 1))

NoRet == [kind |-> "none", name |-> "", exc |-> "", again |-> FALSE]

\* the outcome of a step becomes the next state of the loader
CommitModels(r, i, t, ag) ==
    /\ models' = r.h.models
    /\ lists' = r.h.lists
    /\ nload' = r.h.nload
    /\ nmerge' = r.h.nmerge
    /\ nfixup' = r.h.nfixup
    /\ fetchedBy' = r.h.fetchedBy
    /\ ops' = r.h.ops
    /\ stack' = r.stack
    /\ mode' = r.mode
    /\ arg' = r.arg
    /\ cur' = i
    /\ top' = t
    /\ again' = ag
    /\ ret' = IF r.mode # "idle" THEN NoRet
              ELSE IF r.exc # ""
              THEN [kind |-> "error", name |-> t, exc |-> r.exc, again |-> ag]
              ELSE [kind |-> "model", name |-> t, exc |-> "", again |-> ag]
    /\ loaded' = IF r.mode = "idle" /\ r.exc = "" THEN loaded \cup {t} ELSE loaded

\* a step of load_model on its own
Commit(r, i, t, ag) ==
    /\ Len(r.stack) <= MaxDepth
    /\ CommitModels(r, i, t, ag)
    /\ UNCHANGED <<assets, tvars, gvars, xvars>>

\* a caller (build_block_from_model, unbound_models) calls load_model(n) on
\* instance i
LoadModel(i, n) ==
    /\ mode = "idle"
    /\ \A m \in Names : nload[m] < MaxLoads
    /\ Commit(Enter([Heap EXCEPT !.ops = {}], i, n, <<>>), i, n, n \in loaded)

\* the recursive call of line 881 runs
LoadModelRecurse ==
    /\ mode = "call"
    /\ Commit(Enter(Heap, cur, arg, stack), cur, top, again)

\* the recursive call has returned: the caller merges, fixes up and returns
LoadModelResume ==
    /\ mode = "return"
    /\ Commit(Resume(Heap, stack, arg), cur, top, again)

-----------------------------------------------------------------------------
(* Texture files and the texture cache *)

Stone == "block/stone"
Water == "block/water_still"
TextureNames == {Stone, Water}

\* "assets/minecraft/textures/" + name + '.png'
TexturePath(name) == <<"assets/minecraft/textures/", name, ".png">>
Filenames == {TexturePath(t) : t \in TextureNames}

\* Image.open(buffer).convert("RGBA") of a w x h file; `via` lists the
\* operations that made the image out of the decoded one
Image(f, w, h) == [file |-> f, w |-> w, h |-> h, via |-> <<>>]
\* img.crop((0, 0, w, w))
Crop(img) == [img EXCEPT !.h = img.w, !.via = Append(@, "crop")]
\* img.resize((16, 16), Image.ANTIALIAS)
Resize(img) == [img EXCEPT !.w = 16, !.h = 16, !.via = Append(@, "resize")]

Png(w, h) == [kind |-> "png", w |-> w, h |-> h]
Corrupt == [kind |-> "corrupt"]
\* a 16x16 texture, an animated strip, a high-resolution texture
FileChoices == {Missing, Corrupt, Png(16, 16), Png(16, 32), Png(32, 32)}

\* an exception object: `serial` tells the instances raised for one file apart
Exception(type, f, k) == [type |-> type, file |-> f, serial |-> k]

\* the texture state load_image works on, as one record
TexHeap == [cache |-> texture_cache, nfind |-> nfind, ndecode |-> ndecode]

\* load_image with the outcome of find_file and Image.open, cached or not
LookUp(t, f, keepImage, keepError) ==
    LET found == [t EXCEPT !.nfind = [@ EXCEPT ![f] = @ + 1]]
    IN  IF files[f].kind = "missing"
        THEN LET e == Exception("TextureException", f, found.nfind[f])
             IN  [t |-> IF keepError
                        THEN [found EXCEPT !.cache =
                                 (f :> [kind |-> "exception", exc |-> e]) @@ @]
                        ELSE found,
                  kind |-> "error", exc |-> e]
        ELSE LET opened == [found EXCEPT !.ndecode = [@ EXCEPT ![f] = @ + 1]]
             IN  IF files[f].kind = "corrupt"
                 THEN [t |-> opened, kind |-> "error",
                       exc |-> Exception("TextureException", f, opened.ndecode[f])]
                 ELSE LET img == Image(f, files[f].w, files[f].h)
                      IN  [t |-> IF keepImage
                                 THEN [opened EXCEPT !.cache =
                                          (f :> [kind |-> "image", img |-> img]) @@ @]
                                 ELSE opened,
                           kind |-> "image", img |-> img]

\* load_image that does not keep the image it decoded (line 432 left out)
LoadImageForgetful(t, f) ==
    IF f \in DOMAIN t.cache
    THEN IF t.cache[f].kind = "exception"
         THEN [t |-> t, kind |-> "error", exc |-> t.cache[f].exc]
         ELSE [t |-> t, kind |-> "image", img |-> t.cache[f].img]
    ELSE LookUp(t, f, FALSE, TRUE)

\* load_image that does not keep the exception of find_file (line 423 left out)
LoadImageNoNegativeCache(t, f) ==
    IF f \in DOMAIN t.cache
    THEN IF t.cache[f].kind = "exception"
         THEN [t |-> t, kind |-> "error", exc |-> t.cache[f].exc]
         ELSE [t |-> t, kind |-> "image", img |-> t.cache[f].img]
    ELSE LookUp(t, f, TRUE, FALSE)

\* lines 407-433: load_image(filename).  The result is [t, kind, img, exc]:
\* the texture state left behind and the image returned or exception raised.
LoadImageResult(t, f) ==
    IF f \in DOMAIN t.cache
    THEN IF t.cache[f].kind = "exception"
         THEN [t |-> t, kind |-> "error", exc |-> t.cache[f].exc]
         ELSE [t |-> t, kind |-> "image", img |-> t.cache[f].img]
    ELSE LET found == [t EXCEPT !.nfind = [@ EXCEPT ![f] = @ + 1]]
         IN  IF files[f].kind = "missing"
             THEN LET e == Exception("TextureException", f, found.nfind[f])
                  IN  [t |-> [found EXCEPT !.cache =
                                 (f :> [kind |-> "exception", exc |-> e]) @@ @],
                       kind |-> "error", exc |-> e]
             ELSE LET opened == [found EXCEPT !.ndecode = [@ EXCEPT ![f] = @ + 1]]
                  IN  IF files[f].kind = "corrupt"
                      THEN [t |-> opened, kind |-> "error",
                            exc |-> Exception("TextureException", f,
                                              opened.ndecode[f])]
                      ELSE LET img == Image(f, files[f].w, files[f].h)
                           IN  [t |-> [opened EXCEPT !.cache =
                                          (f :> [kind |-> "image", img |-> img]) @@ @],
                                kind |-> "image", img |-> img]

\* lines 392-405: load_image_texture(filename), always a 16x16 image
LoadImageTextureResult(t, f) ==
    LET r == LoadImageResult(t, f)
    IN  IF r.kind = "error" THEN r
        ELSE LET a == IF r.img.w # r.img.h THEN Crop(r.img) ELSE r.img
                 b == IF r.img.w # 16 THEN Resize(a) ELSE a
             IN  [t |-> [r.t EXCEPT !.cache =
                            (f :> [kind |-> "image", img |-> b]) @@ @],
                  kind |-> "image", img |-> b]

NoTret == [op |-> "", file |-> <<>>, kind |-> "none", cached |-> FALSE]

\* the outcome r of request op for file f becomes the next state
CommitTexture(r, op, f) ==
    /\ texture_cache' = r.t.cache
    /\ nfind' = r.t.nfind
    /\ ndecode' = r.t.ndecode
    /\ tret' = IF r.kind = "image"
               THEN [op |-> op, file |-> f, kind |-> "image", img |-> r.img,
                     cached |-> f \in DOMAIN texture_cache]
               ELSE [op |-> op, file |-> f, kind |-> "error", exc |-> r.exc,
                     cached |-> f \in DOMAIN texture_cache]
    /\ firstTexture' = IF r.kind = "image" /\ op = "load_image_texture"
                          /\ f \notin DOMAIN firstTexture
                       THEN (f :> r.img) @@ firstTexture ELSE firstTexture
    /\ firstError' = IF r.kind = "error" /\ f \notin DOMAIN firstError
                     THEN (f :> r.exc) @@ firstError ELSE firstError
    /\ UNCHANGED <<files, mvars, gvars, xvars>>

\* no file is looked up more than MaxLookups times
CanLookUp == \A f \in Filenames : nfind[f] < MaxLookups

\* a caller asks for an image
LoadImage(f) ==
    /\ fmode = "idle"
    /\ CanLookUp
    /\ CommitTexture(LoadImageResult(TexHeap, f), "load_image", f)
    /\ UNCHANGED <<textureset, face, fdepth, fmode>>

\* a caller asks for a 16x16 texture
LoadImageTexture(f) ==
    /\ fmode = "idle"
    /\ CanLookUp
    /\ CommitTexture(LoadImageTextureResult(TexHeap, f), "load_image_texture", f)
    /\ UNCHANGED <<textureset, face, fdepth, fmode>>

\* build_texture (line 1102) resolves the texture reference x of a face
FindTextureFromModel(x) ==
    /\ fmode = "idle"
    /\ CanLookUp
    /\ fmode' = "resolve"
    /\ face' = x
    /\ fdepth' = 0
    /\ tret' = NoTret
    /\ UNCHANGED <<files, texture_cache, nfind, ndecode, firstTexture, firstError,
                   textureset, mvars, gvars, xvars>>

\* lines 1231-1232: the reference starts with '#': look the name up and recurse
FindTextureRecurse ==
    /\ fmode = "resolve"
    /\ face[1] = "#"
    /\ IF face[2] \notin DOMAIN textureset
       THEN /\ fmode' = "idle"
            /\ tret' = [op |-> "find_texture_from_model", file |-> <<>>,
                        kind |-> "error", exc |-> Exception("KeyError", <<>>, 0),
                        cached |-> FALSE]
            /\ UNCHANGED <<face, fdepth>>
       ELSE IF fdepth + 1 >= RecursionLimit
       THEN /\ fmode' = "idle"
            /\ tret' = [op |-> "find_texture_from_model", file |-> <<>>,
                        kind |-> "error", exc |-> Exception("RecursionError", <<>>, 0),
                        cached |-> FALSE]
            /\ UNCHANGED <<face, fdepth>>
       ELSE /\ face' = textureset[face[2]]
            /\ fdepth' = fdepth + 1
            /\ UNCHANGED <<fmode, tret>>
    /\ UNCHANGED <<files, texture_cache, nfind, ndecode, firstTexture, firstError,
                   textureset, mvars, gvars, xvars>>

\* lines 1233-1234: a path: strip the namespace and load the texture
FindTextureLoad ==
    /\ fmode = "resolve"
    /\ face[1] # "#"
    /\ LET f == TexturePath(StripNamespace(face))
       IN  CommitTexture(LoadImageTextureResult(TexHeap, f), "load_image_texture", f)
    /\ fmode' = "idle"
    /\ UNCHANGED <<textureset, face, fdepth>>

\* the values a `textures` table may hold
TextureValues ==
    {Ref("all"), Ref("side")} \cup {Loc(ns, t) : ns \in {"", "minecraft"}, t \in TextureNames}

TextureSets ==
    {a @@ b : a \in {<<>>} \cup {[all |-> v] : v \in TextureValues},
              b \in {<<>>} \cup {[side |-> v] : v \in {Ref("all"), Ref("side")}}}

FileTables == [Filenames -> FileChoices]

InitTextures ==
    /\ texture_cache = <<>>
    /\ nfind = [f \in Filenames |-> 0]
    /\ ndecode = [f \in Filenames |-> 0]
    /\ tret = NoTret
    /\ firstTexture = <<>>
    /\ firstError = <<>>
    /\ face = <<>>
    /\ fdepth = 0
    /\ fmode = "idle"

AssetTables ==
    {(Root :> a) @@ (Cube :> b) @@ (Loom :> c) :
        a \in AssetChoices(Root), b \in AssetChoices(Cube), c \in AssetChoices(Loom)}

InitLoader ==
    /\ models = <<>>
    /\ lists = [l \in ListIds |-> <<>>]
    /\ stack = <<>>
    /\ mode = "idle"
    /\ arg = ""
    /\ cur = 1
    /\ top = ""
    /\ ret = NoRet
    /\ ops = {}
    /\ nload = [n \in Names |-> 0]
    /\ nmerge = [n \in Names |-> 0]
    /\ nfixup = [n \in Names |-> 0]
    /\ fetchedBy = [n \in Names |-> 0]
    /\ loaded = {}
    /\ again = FALSE

\* the texture side at rest
NoTextures ==
    /\ files = [f \in Filenames |-> Missing]
    /\ textureset = <<>>
    /\ InitTextures

NoFret == [fn |-> "", value |-> <<>>]
NoRret == [op |-> "", kind |-> "none"]

NoFound == [file |-> "", from |-> <<>>]

NoUret == [kind |-> "none", model |-> ""]

\* lines 37-49: the globals of the module before any decorator ran
NoBlocks ==
    /\ blockmap_generators = {}
    /\ block_models = <<>>
    /\ next_unclaimed_id = 2048
    /\ known_blocks = {}
    /\ used_datas = {}
    /\ max_blockid = 0
    /\ max_data = 0
    /\ transparent_blocks = {}
    /\ solid_blocks = {}
    /\ discovered = <<>>
    /\ uret = NoUret

Idle == [fn |-> "", pc |-> 0]
NoCret == [fn |-> "", touched |-> FALSE, before |-> <<>>, img |-> <<>>]

\* no builder composes an image
NoPixels ==
    /\ canvas = <<>>
    /\ builder = Idle
    /\ cret = NoCret

\* no file is being searched for, no model is being bound
NoExtras ==
    /\ jars = <<>>
    /\ disk = <<>>
    /\ sret = NoFound
    /\ NoBlocks
    /\ NoPixels

\* no face is being placed
NoFaces ==
    /\ rotation = 0
    /\ blockstate = <<>>
    /\ elem = <<>>
    /\ direction = ""
    /\ fret = NoFret
    /\ rret = NoRret
    /\ firstOrder = <<>>
    /\ NoExtras

\* one session: every instance is given the same texturepath
Init ==
    /\ assets \in {[i \in Insts |-> a] : a \in AssetTables}
    /\ InitLoader
    /\ NoTextures
    /\ NoFaces

Next ==
    \/ \E n \in Names : LoadModel(1, n)
    \/ LoadModelRecurse
    \/ LoadModelResume

Spec == Init /\ [][Next]_vars

\* descriptions that vary in what decides the recursion: the asset being
\* there and well-formed, and its parent reference (any name, itself included)
ChainChoices(n) ==
    {Missing, Malformed} \cup
    {Json(p @@ [textures |-> [all |-> Loc("minecraft", n)],
                elements |-> <<Element(n, 1, AllFaces)>>]) :
        p \in {<<>>} \cup {[parent |-> q] : q \in ParentChoices}}

ChainTables ==
    {(Root :> a) @@ (Cube :> b) @@ (Loom :> c) :
        a \in ChainChoices(Root), b \in ChainChoices(Cube), c \in ChainChoices(Loom)}

InitChains ==
    /\ assets \in {[i \in Insts |-> a] : a \in ChainTables}
    /\ InitLoader
    /\ NoTextures
    /\ NoFaces

\* the interpreter runs a call in flight to its end: single-threaded,
\* synchronous, no suspension points
FairSpec ==
    InitChains /\ [][Next]_vars
        /\ WF_vars(LoadModelRecurse) /\ WF_vars(LoadModelResume)

-----------------------------------------------------------------------------
(* The parent references of the descriptions, as instance i finds them *)

\* the name the description of n names as its parent, "" when it names none
ParentName(i, n) ==
    IF assets[i][n].kind = "json" /\ "parent" \in DOMAIN assets[i][n].json
    THEN StripNamespace(assets[i][n].json.parent)
    ELSE ""

RECURSIVE Ancestor(_, _, _)
\* the k-th ancestor of n, "" when the chain ends before
Ancestor(i, n, k) ==
    IF n = "" \/ k = 0 THEN n ELSE Ancestor(i, ParentName(i, n), k - 1)

\* the parent references reachable from n form a cycle: the chain never ends
OnCycle(i, n) == Ancestor(i, n, Cardinality(Names)) # ""

ElemIds(seq) == [k \in DOMAIN seq |-> seq[k].id]

-----------------------------------------------------------------------------
(* Claims about load_model *)

\* C1: after load_model resolves a model that has a parent, the resolved
\* texture table holds every symbolic name of the parent and of the child,
\* and a name both define keeps the child's own value.
C1_ChildOverridesParent ==
    (ret.kind = "model" /\ <<"merge", ret.name>> \in ops) =>
        LET own == assets[cur][ret.name].json
            m == models[ret.name]
            p == models[StripNamespace(own.parent)]
        IN  /\ "textures" \in DOMAIN p =>
                \A k \in DOMAIN p.textures : k \in DOMAIN m.textures
            /\ "textures" \in DOMAIN own =>
                \A k \in DOMAIN own.textures :
                    k \in DOMAIN m.textures /\ m.textures[k] = own.textures[k]

\* C2: when load_model merges a parent into a model, the resolved element
\* sequence is the child's declared elements followed by the parent's
\* resolved elements when both define elements, and the parent's elements
\* when the child defines none (the fixup of a model changes faces of its
\* first element, never the sequence).
C2_ChildThenParentElements ==
    [][(mode = "return" /\ nmerge'[stack[Len(stack)]] > nmerge[stack[Len(stack)]]) =>
        LET n == stack[Len(stack)]
            own == assets[cur][n].json
            par == ElementsOf(lists, models[arg])
            want == IF "elements" \in DOMAIN own /\ "elements" \in DOMAIN models[arg]
                    THEN own.elements \o par
                    ELSE IF "elements" \in DOMAIN models[arg] THEN par
                    ELSE IF "elements" \in DOMAIN own THEN own.elements
                    ELSE <<>>
            got == ElementsOf(lists', models'[n])
        IN  /\ ElemIds(got) = ElemIds(want)
            /\ nfixup'[n] = nfixup[n] => got = want]_vars

\* a merge of two element lists has happened and its call has returned
C2_Witness ==
    /\ ret.kind = "model"
    /\ <<"merge", ret.name>> \in ops
    /\ "elements" \in DOMAIN assets[cur][ret.name].json
    /\ Len(ElementsOf(lists, models[ret.name]))
         > Len(assets[cur][ret.name].json.elements)

\* C3: when load_model(name) fails, the cache holds no entry for name
\* afterwards, and no cached entry still carries a `parent` reference.
C3_FailedNotCached ==
    /\ ret.kind = "error" => ret.name \notin DOMAIN models
    /\ mode = "idle" => \A n \in DOMAIN models : "parent" \notin DOMAIN models[n]

\* C4: every load_model call in flight comes to its end, whatever the parent
\* references of the descriptions are (cycles included), and it never has
\* more frames than there are model names.
C4_Terminates ==
    /\ [](Len(stack) <= Cardinality(Names))
    /\ (mode # "idle") ~> (mode = "idle")

\* a call for a model on a cycle of parent references has come to its end
C4_Witness ==
    /\ mode = "idle"
    /\ ret.kind # "none"
    /\ ~ret.again
    /\ OnCycle(cur, ret.name)
    /\ \E n \in Names : <<"fetch", n>> \in ops /\ n # ret.name

\* C5: when the parent references reachable from a model form a cycle,
\* load_model reports an error for it instead of returning a model.
C5_CycleIsError ==
    ret.kind = "model" => ~OnCycle(cur, ret.name)

\* C7: once load_model(name) has returned a model, every later
\* load_model(name) returns the cached model at once: no asset is fetched,
\* no parent merged, no fixup applied, the cache is left as it is; and no
\* name is ever fetched, merged or fixed up twice.
C7_ComputedOnce ==
    [][(mode = "idle" /\ top' \in loaded) =>
        /\ mode' = "idle"
        /\ ret'.kind = "model" /\ ret'.name = top'
        /\ ops' = {}
        /\ models' = models /\ lists' = lists
        /\ \A n \in Names : nload'[n] <= 1 /\ nmerge'[n] <= 1 /\ nfixup'[n] <= 1]_vars

\* a model with a parent and a fixup was resolved and then asked for again
C7_Witness ==
    /\ ret.kind = "model" /\ ret.again
    /\ nmerge[ret.name] = 1
    /\ nfixup[ret.name] = 1

-----------------------------------------------------------------------------
(* Two sessions: the instances are given different texturepaths *)

SessionChoices(n) ==
    {Missing,
     Json([textures |-> [all |-> Loc("minecraft", n)]]),
     Json([textures |-> [side |-> Ref("all")],
           elements |-> <<Element(n, 1, AllFaces)>>])}

SessionTables ==
    {(Root :> a) @@ (Cube :> b) @@ (Loom :> c) :
        a \in SessionChoices(Root), b \in SessionChoices(Cube),
        c \in {Missing, Json([parent |-> Loc("minecraft", Cube),
                              textures |-> [all |-> Loc("minecraft", Loom)]])}}

InitSessions ==
    /\ assets \in [Insts -> SessionTables]
    /\ InitLoader
    /\ NoTextures
    /\ NoFaces

NextSessions ==
    \/ \E i \in Insts, n \in Names : LoadModel(i, n)
    \/ LoadModelRecurse
    \/ LoadModelResume

SessionSpec == InitSessions /\ [][NextSessions]_vars

\* C8: load_model on one instance never returns a model that was fetched and
\* cached through another instance.
C8_CacheScopedToInstance ==
    ret.kind = "model" => fetchedBy[ret.name] = cur

-----------------------------------------------------------------------------
(* Texture requests of one session *)

InitTextureSpec ==
    /\ assets = [i \in Insts |-> [n \in Names |-> Missing]]
    /\ InitLoader
    /\ files \in FileTables
    /\ textureset \in TextureSets
    /\ InitTextures
    /\ NoFaces

NextTexture ==
    \/ \E f \in Filenames : LoadImage(f)
    \/ \E f \in Filenames : LoadImageTexture(f)
    \/ \E x \in {Ref("all"), Ref("side")} : FindTextureFromModel(x)
    \/ FindTextureRecurse
    \/ FindTextureLoad

TextureSpec == InitTextureSpec /\ [][NextTexture]_vars

\* C6: resolving a face texture reference takes no more than a small fixed
\* number of steps: a chain of '#name' references that has not reached a
\* path by then has ended in an error.
C6_ResolutionBounded == fdepth <= ResolveDepth

\* C9: every load_image_texture request for a file returns the image the
\* first such request returned, and a file whose image is cached has been
\* looked up and decoded exactly once.
C9_TextureLoadedOnce ==
    /\ \A f \in DOMAIN texture_cache :
          texture_cache[f].kind = "image" => nfind[f] = 1 /\ ndecode[f] = 1
    /\ (tret.kind = "image" /\ tret.op = "load_image_texture") =>
          tret.img = firstTexture[tret.file]

\* a texture that had to be cropped and resized was requested a second time
C9_Witness ==
    /\ tret.kind = "image" /\ tret.op = "load_image_texture"
    /\ tret.cached
    /\ tret.file \in DOMAIN firstTexture
    /\ firstTexture[tret.file].via # <<>>

\* C10: once find_file has failed for a file, every later load_image and
\* load_image_texture of it raises the same exception and find_file is not
\* called for it again.
C10_NotFoundIsCached ==
    \A f \in Filenames : files[f].kind = "missing" =>
        /\ nfind[f] <= 1
        /\ (tret.kind = "error" /\ tret.file = f) => tret.exc = firstError[f]

\* a file that is not there was requested a second time
C10_Witness ==
    /\ tret.kind = "error" /\ tret.cached
    /\ files[tret.file].kind = "missing"
    /\ nfind[tret.file] = 1

\* C11: when a file is found but Image.open cannot decode it, the failure is
\* kept in texture_cache against the filename, and the file is looked up and
\* decoded once however often it is requested.
C11_DecodeFailureIsCached ==
    \A f \in Filenames : files[f].kind = "corrupt" =>
        /\ ndecode[f] >= 1 =>
              f \in DOMAIN texture_cache /\ texture_cache[f].kind = "exception"
        /\ nfind[f] <= 1
        /\ ndecode[f] <= 1

-----------------------------------------------------------------------------
(* Placing one face of an element on the 24x24 canvas *)

Horizontal == {"south", "west", "north", "east"}
Axes == {"x", "y", "z"}

\* a cuboid with its two corners; Python's from[0], from[1], from[2] are
\* from[1], from[2], from[3] here
Box(id, from, to, faces) == [id |-> id, from |-> from, to |-> to, faces |-> faces]

\* int(math.ceil(num / den)) for den > 0.  The floats of image_pos are
\* multiples of 1/16 below 2^8, so the float quotient is the exact one.
Ceil(num, den) == -((-num) \div den)

\* line 1045; the callers pass one of the six face names
numvalue_orientation(orientation) ==
    [south |-> 0, west |-> 1, north |-> 2, east |-> 3, up |-> 4, down |-> 6][orientation]

\* line 1048: a dict lookup, KeyError for a number that is no key
orientation_from_numvalue(orientation) ==
    LET d == (0 :> "south") @@ (1 :> "west") @@ (2 :> "north") @@ (3 :> "east")
             @@ (4 :> "up") @@ (6 :> "down")
    IN  IF orientation \in DOMAIN d THEN d[orientation] ELSE "KeyError"

\* the list [0, 3, 2, 1] of line 1075
ReverseOffset == <<0, 3, 2, 1>>

\* map_facing_to_real without the branches for a block facing up or down
MapFacingHorizontalOnly(self_rotation, blockfacing, targetblockface) ==
    IF targetblockface = "up" THEN "up"
    ELSE IF targetblockface = "down" THEN "down"
    ELSE LET i == numvalue_orientation(blockfacing)
         IN  IF i + 1 \notin DOMAIN ReverseOffset THEN "IndexError"
             ELSE orientation_from_numvalue(
                    (numvalue_orientation(targetblockface) + ReverseOffset[i + 1] + 1
                        + self_rotation + (self_rotation % 2) * 2) % 4)

\* map_facing_to_real without the term (self.rotation % 2) * 2
MapFacingPlainRotation(self_rotation, blockfacing, targetblockface) ==
    IF blockfacing \in {"up", "down"} \/ targetblockface \in {"up", "down"}
    THEN MapFacingHorizontalOnly(0, "south", targetblockface)
    ELSE orientation_from_numvalue(
            (numvalue_orientation(targetblockface)
                + ReverseOffset[numvalue_orientation(blockfacing) + 1] + 1
                + self_rotation) % 4)

\* lines 1053-1076: the face of the model that shows on side targetblockface
\* of a block placed facing blockfacing; the result is a face name, or the
\* name of the exception raised
map_facing_to_real(self_rotation, blockfacing, targetblockface) ==
    IF blockfacing = "up"
    THEN IF targetblockface = "up" THEN "north"
         ELSE IF targetblockface = "north" THEN "west"
         ELSE IF targetblockface = "west" THEN "down"
         ELSE blockfacing
    ELSE IF blockfacing = "down"
    THEN IF targetblockface = "west" THEN "down"
         ELSE IF targetblockface = "north" THEN "west"
         ELSE IF targetblockface = "up" THEN "south"
         ELSE blockfacing
    ELSE IF targetblockface = "up" THEN "up"
    ELSE IF targetblockface = "down" THEN "down"
    ELSE LET i == numvalue_orientation(blockfacing)
         IN  IF i + 1 \notin DOMAIN ReverseOffset THEN "IndexError"
             ELSE orientation_from_numvalue(
                    (numvalue_orientation(targetblockface) + ReverseOffset[i + 1] + 1
                        + self_rotation + (self_rotation % 2) * 2) % 4)

\* map_axis_to_real whose table for x sends two faces to north
MapAxisCollapsed(axis, textureface) ==
    IF axis = "x"
    THEN [up |-> "north", north |-> "down", down |-> "north", south |-> "up",
          east |-> "east", west |-> "west"][textureface]
    ELSE IF axis = "z"
    THEN [up |-> "west", west |-> "down", down |-> "east", east |-> "up",
          north |-> "north", south |-> "south"][textureface]
    ELSE textureface

\* lines 1078-1085; `case 'y' | _` takes every other axis value
map_axis_to_real(axis, textureface) ==
    IF axis = "x"
    THEN [up |-> "north", north |-> "down", down |-> "south", south |-> "up",
          east |-> "east", west |-> "west"][textureface]
    ELSE IF axis = "z"
    THEN [up |-> "west", west |-> "down", down |-> "east", east |-> "up",
          north |-> "north", south |-> "south"][textureface]
    ELSE textureface

\* lines 965-970 of draw_blockface: the face of the element whose texture
\* is drawn on side d
RealFace(self_rotation, bs, d) ==
    IF "facing" \in DOMAIN bs THEN map_facing_to_real(self_rotation, bs.facing, d)
    ELSE IF "axis" \in DOMAIN bs THEN map_axis_to_real(bs.axis, d)
    ELSE d

\* lines 1039-1042
setback(element, facing) ==
    [up |-> 16, down |-> 0,
     north |-> element.from[3], south |-> 16 - element.to[3],
     east |-> 16 - element.to[1], west |-> element.from[1]][facing]

\* image_pos with int() alone in place of int(math.ceil())
ImagePosTruncated(elementdirection, element, facing) ==
    IF elementdirection = "east" THEN <<0, 0>>
    ELSE IF elementdirection = "south" THEN <<12, 0>>
    ELSE IF elementdirection = "west"
    THEN LET sb == 16 - setback(element, facing)
         IN  <<(12 * sb) \div 16, (6 * sb) \div 16>>
    ELSE IF elementdirection = "north"
    THEN LET sb == setback(element, facing)
         IN  <<(12 * sb) \div 16, (6 * 16 - 6 * sb) \div 16>>
    ELSE IF elementdirection = "down"
    THEN <<0, IF "from" \in DOMAIN element
              THEN ((16 - element.from[2]) * 12) \div 16 ELSE 12>>
    ELSE <<0, IF "to" \in DOMAIN element
              THEN ((16 - element.to[2]) * 12) \div 16 ELSE 0>>

\* image_pos with the north face moved down with its setback: 6 + 6/16 s in
\* place of 6 - 6/16 s (line 1011)
ImagePosNorthDown(elementdirection, element, facing) ==
    IF elementdirection = "east" THEN <<0, 0>>
    ELSE IF elementdirection = "south" THEN <<12, 0>>
    ELSE IF elementdirection = "west"
    THEN LET sb == 16 - setback(element, facing)
         IN  <<Ceil(12 * sb, 16), Ceil(6 * sb, 16)>>
    ELSE IF elementdirection = "north"
    THEN LET sb == setback(element, facing)
         IN  <<Ceil(12 * sb, 16), Ceil(6 * 16 + 6 * sb, 16)>>
    ELSE IF elementdirection = "down"
    THEN <<0, IF "from" \in DOMAIN element
              THEN Ceil((16 - element.from[2]) * 12, 16) ELSE 12>>
    ELSE <<0, IF "to" \in DOMAIN element
              THEN Ceil((16 - element.to[2]) * 12, 16) ELSE 0>>

\* lines 974-1037: where on the canvas the face drawn on side
\* elementdirection is pasted
image_pos(elementdirection, element, facing) ==
    IF elementdirection = "east" THEN <<0, 0>>
    ELSE IF elementdirection = "south" THEN <<12, 0>>
    ELSE IF elementdirection = "west"
    THEN LET sb == 16 - setback(element, facing)
         IN  <<Ceil(12 * sb, 16), Ceil(6 * sb, 16)>>
    ELSE IF elementdirection = "north"
    THEN LET sb == setback(element, facing)
         IN  <<Ceil(12 * sb, 16), Ceil(6 * 16 - 6 * sb, 16)>>
    ELSE IF elementdirection = "down"
    THEN <<0, IF "from" \in DOMAIN element
              THEN Ceil((16 - element.from[2]) * 12, 16) ELSE 12>>
    ELSE <<0, IF "to" \in DOMAIN element
              THEN Ceil((16 - element.to[2]) * 12, 16) ELSE 0>>

\* lines 1192-1215: the angle texture.rotate is called with, or the KeyError
\* of a `rotation` that is no key of the table
texture_rotation(self_rotation, d, bs, faceinfo) ==
    LET own == IF "texturerotation" \in DOMAIN faceinfo
               THEN faceinfo.texturerotation ELSE 0
        side(table, add) ==
            IF "rotation" \in DOMAIN faceinfo /\ faceinfo.rotation \notin DOMAIN table
            THEN [exc |-> "KeyError", angle |-> 0]
            ELSE LET r == IF "rotation" \in DOMAIN faceinfo
                          THEN table[faceinfo.rotation] ELSE own
                     a == IF "facing" \in DOMAIN bs /\ bs.facing \in {"up", "down"}
                          THEN add[[up |-> 0, down |-> 1][bs.facing] + 1] ELSE 0
                 IN  [exc |-> "", angle |-> (r + a) % 360]
    IN  IF d \in {"down", "up"}
        THEN IF "facing" \in DOMAIN bs
             THEN IF numvalue_orientation(bs.facing) < 4
                  THEN [exc |-> "",
                        angle |-> (own + <<0, 270, 180, 90>>[
                            ((numvalue_orientation(bs.facing) + self_rotation) % 4) + 1])
                                  % 360]
                  ELSE [exc |-> "",
                        angle |-> (own + <<180, 0>>[[up |-> 0, down |-> 1][bs.facing] + 1])
                                  % 360]
             ELSE [exc |-> "", angle |-> own % 360]
        ELSE IF d \in {"north", "south"}
        THEN side((0 :> 180) @@ (90 :> 90) @@ (180 :> 0) @@ (270 :> 270), <<90, 90>>)
        ELSE side((0 :> 180) @@ (90 :> 270) @@ (180 :> 0) @@ (270 :> 90), <<180, 0>>)

\* lines 1109-1137 of build_texture: the area crop_to_transparancy is called
\* with, <<>> when the element is the full cube and nothing is cropped
BuildTextureArea(element, bs, textureface) ==
    LET from == element.from
        to == element.to
        facing == IF "facing" \in DOMAIN bs THEN bs.facing ELSE ""
    IN  IF ~("from" \in DOMAIN element /\ "to" \in DOMAIN element
              /\ (from # <<0, 0, 0>> \/ to # <<16, 16, 16>>))
        THEN <<>>
        ELSE IF textureface = "west" THEN <<from[3], from[2], to[3], to[2]>>
        ELSE IF textureface = "east" THEN <<16 - from[3], from[2], 16 - to[3], to[2]>>
        ELSE IF textureface = "north" THEN <<16 - from[1], from[2], 16 - to[1], to[2]>>
        ELSE IF textureface = "south" THEN <<from[1], from[2], to[1], to[2]>>
        ELSE IF facing = "north" THEN <<from[1], 16 - from[3], to[1], 16 - to[3]>>
        ELSE IF facing = "south" THEN <<16 - from[1], from[3], 16 - to[1], to[3]>>
        ELSE IF facing = "west" THEN <<from[3], from[1], to[3], to[1]>>
        ELSE IF facing = "east"
        THEN <<16 - from[3], 16 - from[1], 16 - to[3], 16 - to[1]>>
        ELSE <<from[3], from[1], to[3], to[1]>>

\* lines 1152-1155 of crop_to_transparancy: the corners put in order
OrderedArea(area) ==
    LET a == IF area[1] > area[3] THEN <<area[3], area[2], area[1], area[4]>> ELSE area
    IN  IF a[2] > a[4] THEN <<a[1], a[4], a[3], a[2]>> ELSE a

\* lines 1156-1173: the rectangles crop_to_transparancy clears in img
crop_to_transparancy(area) ==
    LET a == OrderedArea(area)
    IN  IF a = <<0, 0, 16, 16>> THEN <<>>
        ELSE (IF a[4] # 16 THEN <<<<0, 0, 16, 16 - a[4] - 1>>>> ELSE <<>>)
          \o (IF a[2] # 0 THEN <<<<0, 16 - (a[2] - 2), 16, 16>>>> ELSE <<>>)
          \o (IF a[3] # 16 THEN <<<<a[3] - 1, 0, 16, 16>>>> ELSE <<>>)
          \o (IF a[1] # 0 THEN <<<<0, 0, a[1] - 2, 16>>>> ELSE <<>>)

-----------------------------------------------------------------------------
(* The face computations applied to the placements of a face *)

\* an axis value that is none of x, y, z
OtherAxis == "w"

BlockStates ==
    {<<>>} \cup {[facing |-> f] : f \in AllFaces}
           \cup {[axis |-> a] : a \in Axes \cup {OtherAxis}}

FullCube == Box(<<Cube, 1>>, <<0, 0, 0>>, <<16, 16, 16>>,
                [f \in AllFaces |-> [texture |-> Ref("all")]])

\* the boxes that differ from the full cube in one coordinate
FaceElems ==
    {[FullCube EXCEPT !.from[k] = c] : k \in 1..3, c \in 0..16}
        \cup {[FullCube EXCEPT !.to[k] = c] : k \in 1..3, c \in 0..16}

InitFaces ==
    /\ assets = [i \in Insts |-> [n \in Names |-> Missing]]
    /\ InitLoader
    /\ NoTextures
    /\ rotation \in 0..3
    /\ blockstate \in BlockStates
    /\ elem \in FaceElems
    /\ direction \in AllFaces
    /\ fret = NoFret
    /\ rret = NoRret
    /\ firstOrder = <<>>
    /\ NoExtras

Applied(r) ==
    /\ fret' = r
    /\ UNCHANGED <<mvars, tvars, rotation, blockstate, elem, direction,
                   rret, firstOrder, xvars>>

\* line 966
MapFacingToReal ==
    /\ fret.fn = ""
    /\ "facing" \in DOMAIN blockstate
    /\ Applied([fn |-> "map_facing_to_real",
                value |-> map_facing_to_real(rotation, blockstate.facing, direction)])

\* line 968
MapAxisToReal ==
    /\ fret.fn = ""
    /\ "facing" \notin DOMAIN blockstate
    /\ "axis" \in DOMAIN blockstate
    /\ Applied([fn |-> "map_axis_to_real",
                value |-> map_axis_to_real(blockstate.axis, direction)])

\* lines 1217-1228 with 520-546 and 549-563: the size <<width, height>> of
\* the image transform_texture returns: transform_image_top makes a 24x12
\* image, transform_image_side a 12x18 one, and the flips keep the size
TransformTextureSize(d) ==
    IF d \in {"down", "up"} THEN <<24, 12>> ELSE <<12, 18>>

\* line 972
ImagePos ==
    /\ fret.fn = ""
    /\ LET facing == RealFace(rotation, blockstate, direction)
       IN  Applied([fn |-> "image_pos", facing |-> facing,
                    size |-> TransformTextureSize(direction),
                    value |-> image_pos(direction, elem, facing)])

\* line 1107
TextureRotation ==
    /\ fret.fn = ""
    /\ LET facing == RealFace(rotation, blockstate, direction)
       IN  Applied([fn |-> "texture_rotation", facing |-> facing,
                    value |-> texture_rotation(rotation, direction, blockstate,
                                               elem.faces[facing])])

\* lines 1109-1137
BuildTextureCrop ==
    /\ fret.fn = ""
    /\ LET facing == RealFace(rotation, blockstate, direction)
       IN  Applied([fn |-> "build_texture", facing |-> facing,
                    value |-> BuildTextureArea(elem, blockstate, facing)])

NextFaces ==
    \/ MapFacingToReal
    \/ MapAxisToReal
    \/ ImagePos
    \/ TextureRotation
    \/ BuildTextureCrop

FaceSpec == InitFaces /\ [][NextFaces]_vars

-----------------------------------------------------------------------------
(* Claims about the face computations *)

\* the ring of the horizontal faces: south 0, west 1, north 2, east 3
Ring == <<"south", "west", "north", "east">>
RingIndex(f) == CHOOSE i \in 0..3 : Ring[i + 1] = f

\* C16: map_facing_to_real is total: for every block facing, every side and
\* every rotation 0..3 it returns one of the six face names and raises nothing.
C16_MapFacingTotal ==
    fret.fn = "map_facing_to_real" => fret.value \in AllFaces

\* a block facing down, asked for a side none of the branches names
C16_Witness ==
    /\ fret.fn = "map_facing_to_real"
    /\ blockstate.facing = "down" /\ direction = "east" /\ rotation = 3
    /\ fret.value = "down"

\* C17: for a horizontal block facing and a horizontal side, the face
\* returned has ring index (targetIndex + reverseOffset[facingIndex] + 1
\* + rotation + 2 * (rotation mod 2)) mod 4 with reverseOffset = [0,3,2,1];
\* for a horizontal facing the sides up and down map to themselves.
C17_HorizontalRing ==
    (fret.fn = "map_facing_to_real" /\ blockstate.facing \in Horizontal) =>
        IF direction \in Horizontal
        THEN fret.value =
                Ring[((RingIndex(direction)
                        + <<0, 3, 2, 1>>[RingIndex(blockstate.facing) + 1]
                        + 1 + rotation + 2 * (rotation % 2)) % 4) + 1]
        ELSE fret.value = direction

\* a block facing west under rotation 1 shows its south face to the west
C17_Witness ==
    /\ fret.fn = "map_facing_to_real"
    /\ blockstate.facing = "west" /\ direction = "west" /\ rotation = 1
    /\ fret.value = "south"

\* what crop_to_transparancy clears for the area build_texture gives it
Cleared(area) == IF area = <<>> THEN <<>> ELSE crop_to_transparancy(area)

\* C18: for horizontal facings, two placements (f1, r1) and (f2, r2) with
\* (index(f1) + r1) mod 4 = (index(f2) + r2) mod 4 give the same real face for
\* every side, the same texture rotation of the up/down side and the same
\* crop of the up/down side of every element.
C18_RotationFolded ==
    (fret.fn \in {"map_facing_to_real", "texture_rotation", "build_texture"}
        /\ "facing" \in DOMAIN blockstate /\ blockstate.facing \in Horizontal) =>
        \A f2 \in Horizontal, r2 \in 0..3 :
            (RingIndex(f2) + r2) % 4 = (RingIndex(blockstate.facing) + rotation) % 4 =>
                LET bs2 == [facing |-> f2]
                    real2 == RealFace(r2, bs2, direction)
                IN  /\ fret.fn = "map_facing_to_real" => fret.value = real2
                    /\ (fret.fn = "texture_rotation" /\ direction \in {"up", "down"}) =>
                          fret.value = texture_rotation(r2, direction, bs2,
                                                        elem.faces[real2])
                    /\ (fret.fn = "build_texture" /\ direction \in {"up", "down"}) =>
                          Cleared(fret.value) = Cleared(BuildTextureArea(elem, bs2, real2))

\* C19: for each axis, map_axis_to_real is a permutation of the six face
\* names, and for axis y and for any value other than x and z it is the
\* identity.
C19_AxisPermutation ==
    fret.fn = "map_axis_to_real" =>
        /\ fret.value \in AllFaces
        /\ \A g \in AllFaces \ {direction} :
              map_axis_to_real(blockstate.axis, g) # fret.value
        /\ blockstate.axis \notin {"x", "z"} => fret.value = direction

\* a log lying along x shows its south face below
C19_Witness ==
    /\ fret.fn = "map_axis_to_real"
    /\ blockstate.axis = "x" /\ direction = "down"
    /\ fret.value = "south"

\* c is the least integer at or above num / den
IsCeil(c, num, den) == den * c >= num /\ den * (c - 1) < num

\* the setback of the claim: how far the face lies behind the cube's side
SetbackOf(e, f) ==
    CASE f = "up" -> 16
      [] f = "down" -> 0
      [] f = "north" -> e.from[3]
      [] f = "south" -> 16 - e.to[3]
      [] f = "east" -> 16 - e.to[1]
      [] f = "west" -> e.from[1]

\* C20: image_pos returns (0,0) for side east and (12,0) for south;
\* (0, ceil((16-to.y)*12/16)) for up and (0, ceil((16-from.y)*12/16)) for
\* down; (ceil(12*s/16), ceil(6 - 6*s/16)) for north and
\* (ceil(12*(16-s)/16), ceil(6*(16-s)/16)) for west, s being the setback of
\* the real face; the full cube with no placement state gets west (12,6),
\* north (0,6) and up (0,0).
C20_ImagePos ==
    fret.fn = "image_pos" =>
        LET s == SetbackOf(elem, fret.facing)
            x == fret.value[1]
            y == fret.value[2]
        IN  /\ direction = "east" => fret.value = <<0, 0>>
            /\ direction = "south" => fret.value = <<12, 0>>
            /\ direction = "up" => x = 0 /\ IsCeil(y, (16 - elem.to[2]) * 12, 16)
            /\ direction = "down" => x = 0 /\ IsCeil(y, (16 - elem.from[2]) * 12, 16)
            /\ direction = "north" => IsCeil(x, 12 * s, 16) /\ IsCeil(y, 96 - 6 * s, 16)
            /\ direction = "west" =>
                  IsCeil(x, 12 * (16 - s), 16) /\ IsCeil(y, 6 * (16 - s), 16)
            /\ (elem = FullCube /\ DOMAIN blockstate = {}) =>
                  /\ direction = "west" => fret.value = <<12, 6>>
                  /\ direction = "north" => fret.value = <<0, 6>>
                  /\ direction = "up" => fret.value = <<0, 0>>

\* a north face set back by 5: 12*5/16 and 6 - 6*5/16 are rounded up
C20_Witness ==
    /\ fret.fn = "image_pos"
    /\ direction = "north" /\ fret.facing = "north"
    /\ elem.from[3] = 5
    /\ fret.value = <<4, 5>>

-----------------------------------------------------------------------------
(* Images as objects: which calls return a new image, which change theirs *)

\* a call that returns a new image and leaves the one it is called on alone:
\* copy, rotate, resize, transform, transpose, crop, enhance, Image.new
Fresh(op) == [op |-> op, inplace |-> FALSE]
\* a call that changes the pixels of the image it is given:
\* ImageDraw.Draw(img).rectangle, putalpha, alpha_over (its first argument)
Onto(op) == [op |-> op, inplace |-> TRUE]

\* the image object load_image_texture returned for file f
Cached(f) == [cached |-> TRUE, file |-> f]

RECURSIVE Work(_, _, _)
\* the texture cache after the calls `steps` were made one after the other,
\* each on the image the one before returned, beginning with image ref
Work(cache, ref, steps) ==
    IF steps = <<>> THEN cache
    ELSE LET st == Head(steps)
         IN  IF st.inplace
             THEN Work(IF ref.cached
                       THEN [cache EXCEPT ![ref.file].img.via = Append(@, st.op)]
                       ELSE cache,
                       ref, Tail(steps))
             ELSE Work(cache, [ref EXCEPT !.cached = FALSE], Tail(steps))

\* lines 520-546, 549-563: resize, then transform
TransformSteps == <<Fresh("resize"), Fresh("transform")>>

\* the darkening of lines 642-644, 764-766, 1180-1182: split, enhance, then
\* putalpha on the enhanced image
DarkenSteps == <<Fresh("enhance"), Onto("putalpha")>>

\* the steps of build_full_block with line 744 (side = side.copy()) left out
FullBlockSideStepsNoCopy(cropped, flipped) ==
    (IF cropped THEN <<Onto("rectangle")>> ELSE <<>>)
        \o TransformSteps
        \o (IF flipped THEN <<Fresh("transpose")>> ELSE <<>>)
        \o DarkenSteps

\* lines 743-754 and 759-805 of build_full_block: what is done with one side
\* image; `cropped` when top is a tuple, `flipped` for side1 and side4
FullBlockSideSteps(cropped, flipped) ==
    (IF cropped THEN <<Fresh("copy"), Onto("rectangle")>> ELSE <<>>)
        \o TransformSteps
        \o (IF flipped THEN <<Fresh("transpose")>> ELSE <<>>)
        \o DarkenSteps

\* lines 629-647 of build_block
BlockTopSteps == <<Fresh("copy")>> \o TransformSteps
BlockSideSteps == TransformSteps \o <<Fresh("transpose")>> \o DarkenSteps

\* lines 670-684 of build_slab_block: the mask is cropped out of side, side
\* becomes a new image the mask is pasted on
SlabSideSteps ==
    <<Fresh("crop"), Fresh("new"), Onto("alpha_over")>>
        \o TransformSteps \o <<Fresh("transpose")>> \o DarkenSteps

\* lines 1217-1228: transform_texture for the side d
TransformTextureSteps(d) ==
    IF d \in {"down", "up", "north", "south"} THEN TransformSteps
    ELSE <<Fresh("transpose")>> \o TransformSteps \o <<Fresh("transpose")>>

\* lines 1177-1190: adjust_lighting
AdjustLightingSteps(d) ==
    IF d \in {"south", "west", "north", "east"} THEN DarkenSteps ELSE <<>>

\* lines 1102-1142 of build_texture: what is done with the image
\* find_texture_from_model returned, `cleared` being the rectangles
\* crop_to_transparancy clears
BuildTextureSteps(d, bs, cleared) ==
    <<Fresh("copy")>>
        \o (IF "axis" \in DOMAIN bs /\ bs.axis \in {"x", "z"}
            THEN <<Fresh("rotate")>> ELSE <<>>)
        \o <<Fresh("rotate")>>
        \o [k \in DOMAIN cleared |-> Onto("rectangle")]
        \o TransformTextureSteps(d)
        \o AdjustLightingSteps(d)

-----------------------------------------------------------------------------
(* build_block_from_model *)

RECURSIVE RunLoad(_, _)
\* the frames of a load_model call run to their end
RunLoad(r, i) ==
    IF r.mode = "idle" THEN r
    ELSE IF r.mode = "call" THEN RunLoad(Enter(r.h, i, r.arg, r.stack), i)
    ELSE RunLoad(Resume(r.h, r.stack, r.arg), i)

\* line 923: load_model(n) on instance i, as its caller sees it
load_model(h, i, n) == RunLoad(Enter([h EXCEPT !.ops = {}], i, n, <<>>), i)

\* line 929: the key of the sort
SortKey(x) ==
    <<x.to[2], 16 - (x.from[1] + x.to[1]), 16 - (x.from[3] + x.to[3])>>

\* a < b for two Python tuples of three numbers
TupleLess(a, b) ==
    \E k \in 1..3 : a[k] < b[k] /\ \A j \in 1..(k - 1) : a[j] = b[j]

RECURSIVE InsertFirst(_, _)
\* x put into a sorted list before the elements of its own key
InsertFirst(seq, x) ==
    IF seq = <<>> THEN <<x>>
    ELSE IF ~TupleLess(SortKey(Head(seq)), SortKey(x)) THEN <<x>> \o seq
    ELSE <<Head(seq)>> \o InsertFirst(Tail(seq), x)

RECURSIVE Insert(_, _)
\* x put into a sorted list behind the elements whose key is not above its own
Insert(seq, x) ==
    IF seq = <<>> THEN <<x>>
    ELSE IF TupleLess(SortKey(x), SortKey(Head(seq))) THEN <<x>> \o seq
    ELSE <<Head(seq)>> \o Insert(Tail(seq), x)

RECURSIVE SortedUnstable(_)
\* a sort by SortKey that turns the elements of one key around
SortedUnstable(seq) ==
    IF seq = <<>> THEN <<>>
    ELSE InsertFirst(SortedUnstable(SubSeq(seq, 1, Len(seq) - 1)), seq[Len(seq)])

RECURSIVE Sorted(_)
\* line 929: list.sort(key=...), ascending and stable
Sorted(seq) ==
    IF seq = <<>> THEN <<>>
    ELSE Insert(Sorted(SubSeq(seq, 1, Len(seq) - 1)), seq[Len(seq)])

\* the texture state a render works on, as one record
RenderHeap == [cache |-> texture_cache, nfind |-> nfind, ndecode |-> ndecode,
               first |-> firstTexture, firstErr |-> firstError]

NoExc == Exception("", <<>>, 0)

\* the outcome r of load_image_texture(f), remembered when it is the first
Noted(r, f) ==
    [t |-> [r.t EXCEPT !.first = IF r.kind = "image" /\ f \notin DOMAIN @
                                 THEN (f :> r.img) @@ @ ELSE @,
                       !.firstErr = IF r.kind = "error" /\ f \notin DOMAIN @
                                    THEN (f :> r.exc) @@ @ ELSE @],
     kind |-> r.kind, file |-> f,
     exc |-> IF r.kind = "error" THEN r.exc ELSE NoExc]

RECURSIVE find_texture_from_model(_, _, _, _)
\* lines 1230-1234, under `depth` frames of its own
find_texture_from_model(t, x, textures, depth) ==
    IF x[1] = "#"
    THEN IF x[2] \notin DOMAIN textures
         THEN [t |-> t, kind |-> "error", file |-> <<>>,
               exc |-> Exception("KeyError", <<>>, 0)]
         ELSE IF depth + 1 >= RecursionLimit
         THEN [t |-> t, kind |-> "error", file |-> <<>>,
               exc |-> Exception("RecursionError", <<>>, 0)]
         ELSE find_texture_from_model(t, textures[x[2]], textures, depth + 1)
    ELSE LET f == TexturePath(StripNamespace(x))
         IN  Noted(LoadImageTextureResult(t, f), f)

\* the sides of an element with the second of each pair preferred
ElementSidesSecond(e) ==
    (IF "east" \in DOMAIN e.faces THEN <<"east">>
     ELSE IF "west" \in DOMAIN e.faces THEN <<"west">> ELSE <<>>)
    \o (IF "south" \in DOMAIN e.faces THEN <<"south">>
        ELSE IF "north" \in DOMAIN e.faces THEN <<"north">> ELSE <<>>)
    \o (IF "down" \in DOMAIN e.faces THEN <<"down">>
        ELSE IF "up" \in DOMAIN e.faces THEN <<"up">> ELSE <<>>)

\* lines 936-949: the sides draw_blockface is called for, in this order
ElementSides(e) ==
    (IF "west" \in DOMAIN e.faces THEN <<"west">>
     ELSE IF "east" \in DOMAIN e.faces THEN <<"east">> ELSE <<>>)
    \o (IF "north" \in DOMAIN e.faces THEN <<"north">>
        ELSE IF "south" \in DOMAIN e.faces THEN <<"south">> ELSE <<>>)
    \o (IF "up" \in DOMAIN e.faces THEN <<"up">>
        ELSE IF "down" \in DOMAIN e.faces THEN <<"down">> ELSE <<>>)

\* lines 1102-1144 and 971-972: the face was found and is pasted, image
\* `found` turned by `turn` and cleared in the rectangles `cleared`
DrawnFace(found, turn, cleared, k, e, bs, d, facing) ==
    IF found.kind = "error"
    THEN [t |-> found.t, exc |-> found.exc,
          kind |-> IF found.exc.type = "KeyError" THEN "KeyError" ELSE "raise"]
    ELSE IF turn.exc # ""
    THEN [t |-> found.t, kind |-> "KeyError", exc |-> Exception("KeyError", <<>>, 0)]
    ELSE [t |-> [found.t EXCEPT !.cache =
                    Work(@, Cached(found.file), BuildTextureSteps(d, bs, cleared))],
          kind |-> "drawn", exc |-> NoExc,
          entry |-> [elem |-> k, id |-> e.id, direction |-> d,
                     facing |-> facing, file |-> found.file,
                     angle |-> turn.angle, cleared |-> cleared,
                     pos |-> image_pos(d, e, facing)]]

\* lines 970-972: the face `facing` of the element is looked up and built
FaceOf(t, k, e, colmodel, bs, rot, d, facing) ==
    IF \/ facing \notin DOMAIN e.faces
       \/ "texture" \notin DOMAIN e.faces[facing]
       \/ "textures" \notin DOMAIN colmodel
    THEN [t |-> t, kind |-> "KeyError", exc |-> Exception("KeyError", <<>>, 0)]
    ELSE DrawnFace(find_texture_from_model(t, e.faces[facing].texture,
                                           colmodel.textures, 0),
                   texture_rotation(rot, d, bs, e.faces[facing]),
                   Cleared(BuildTextureArea(e, bs, facing)),
                   k, e, bs, d, facing)

\* lines 964-972 and 1100-1144: draw_blockface for side d of e, the k-th
\* element.  kind is "drawn", "KeyError" or "raise" (another exception).
DrawBlockface(t, k, e, colmodel, bs, rot, d) ==
    FaceOf(t, k, e, colmodel, bs, rot, d, RealFace(rot, bs, d))

\* the outcome `rest` of what follows, behind the sides `log` drawn before
Logged(log, rest) == [rest EXCEPT !.log = log \o @]

RECURSIVE DrawSides(_, _, _, _, _, _, _)
\* lines 936-951: draw_blockface returned f for the first of `sides`; an
\* exception ends the body of the try
AfterSide(f, k, e, colmodel, bs, rot, sides) ==
    IF f.kind # "drawn"
    THEN [t |-> f.t, kind |-> f.kind, exc |-> f.exc, log |-> <<>>]
    ELSE Logged(<<f.entry>>, DrawSides(f.t, k, e, colmodel, bs, rot, Tail(sides)))

\* lines 935-951: the body of the try for one element
DrawSides(t, k, e, colmodel, bs, rot, sides) ==
    IF sides = <<>> THEN [t |-> t, kind |-> "ok", exc |-> NoExc, log |-> <<>>]
    ELSE AfterSide(DrawBlockface(t, k, e, colmodel, bs, rot, Head(sides)),
                   k, e, colmodel, bs, rot, sides)

RECURSIVE DrawElements(_, _, _, _, _, _)
\* lines 934 and 950-951: the k-th element ended as e; a KeyError goes on
\* with the next element, any other exception leaves the loop
AfterElement(e, k, elements, colmodel, bs, rot) ==
    IF e.kind = "raise" THEN e
    ELSE Logged(e.log, DrawElements(e.t, k + 1, elements, colmodel, bs, rot))

\* lines 934-951: the loop, from the k-th element on
DrawElements(t, k, elements, colmodel, bs, rot) ==
    IF k > Len(elements) THEN [t |-> t, kind |-> "ok", exc |-> NoExc, log |-> <<>>]
    ELSE AfterElement(DrawSides(t, k, elements[k], colmodel, bs, rot,
                                ElementSides(elements[k])),
                      k, elements, colmodel, bs, rot)

\* lines 923-927: the call ends before the sort, by an exception of
\* load_model or with None
NothingBuilt(l, t, kind) ==
    [load |-> l, t |-> t, sorted |-> FALSE, exc |-> l.exc, kind |-> kind,
     resolved |-> <<>>, elements |-> <<>>, log |-> <<>>]

\* lines 929-962: the list was sorted in place and the loop ended as d
AfterDraw(l, n, resolved, elements, d) ==
    [load |-> [l EXCEPT !.h.lists[l.h.models[n].elements] = elements],
     t |-> d.t, sorted |-> TRUE, exc |-> d.exc.type,
     kind |-> IF d.kind = "raise" THEN "raise" ELSE "image",
     resolved |-> resolved, elements |-> elements, log |-> d.log]

\* lines 929-951: the sort of line 929 and the loop over the sorted list
AfterSort(l, t, n, bs, rot, resolved, elements) ==
    AfterDraw(l, n, resolved, elements,
              DrawElements(t, 1, elements, l.h.models[n], bs, rot))

\* lines 923-962: load_model ended as l
AfterLoad(l, t, n, bs, rot) ==
    IF l.exc # "" THEN NothingBuilt(l, t, "raise")
    ELSE IF "elements" \notin DOMAIN l.h.models[n] THEN NothingBuilt(l, t, "None")
    ELSE AfterSort(l, t, n, bs, rot, l.h.lists[l.h.models[n].elements],
                   Sorted(l.h.lists[l.h.models[n].elements]))

\* lines 920-962: build_block_from_model for the model named n (prefix
\* included).  kind is "raise" (an exception leaves the call), "None" or
\* "image"; `sorted` tells whether line 929 was reached.
BuildBlockFromModelResult(h, t, i, n, bs, rot) ==
    AfterLoad(load_model(h, i, n), t, n, bs, rot)

\* the texture state t becomes the next state
CommitRender(t) ==
    /\ texture_cache' = t.cache
    /\ nfind' = t.nfind
    /\ ndecode' = t.ndecode
    /\ firstTexture' = t.first
    /\ firstError' = t.firstErr
    /\ UNCHANGED <<assets, files, tret, textureset, face, fdepth, fmode,
                   rotation, blockstate, elem, direction, fret, xvars>>

\* a caller renders the model 'block/' + modelname with blockstate bs
BuildBlockFromModel(i, modelname, bs) ==
    /\ mode = "idle"
    /\ \E n \in {"block/" \o modelname} :
       \E r \in {BuildBlockFromModelResult(Heap, RenderHeap, i, n, bs, rotation)} :
           /\ CommitModels(r.load, i, n, n \in loaded)
           /\ CommitRender(r.t)
           /\ rret' = [op |-> "build_block_from_model", model |-> n,
                       blockstate |-> bs, kind |-> r.kind, exc |-> r.exc,
                       sorted |-> r.sorted, resolved |-> r.resolved,
                       elements |-> r.elements, log |-> r.log]
           /\ firstOrder' = IF r.sorted /\ n \notin DOMAIN firstOrder
                            THEN (n :> ElemIds(r.elements)) @@ firstOrder
                            ELSE firstOrder

-----------------------------------------------------------------------------
(* The builders that are given images: build_block, build_slab_block and
   build_full_block.  A caller loads the textures with load_image_texture
   and passes on what it returned. *)

\* None in place of an image
NoImage == <<>>

RECURSIVE LoadAll(_, _)
\* load_image_texture ended as r for the first of fs; an exception leaves
\* the caller
AfterImage(r, fs) ==
    IF r.kind = "error" THEN [t |-> r.t, kind |-> "raise", exc |-> r.exc]
    ELSE LoadAll(r.t, Tail(fs))

\* load_image_texture for the files fs one after the other
LoadAll(t, fs) ==
    IF fs = <<>> THEN [t |-> t, kind |-> "image", exc |-> NoExc]
    ELSE IF Head(fs) = NoImage THEN LoadAll(t, Tail(fs))
    ELSE AfterImage(Noted(LoadImageTextureResult(t, Head(fs)), Head(fs)), fs)

\* the calls `steps` made on the image of file f, None left alone
WorkOn(cache, f, steps) ==
    IF f = NoImage THEN cache ELSE Work(cache, Cached(f), steps)

\* the builder op was called with args once its images were loaded
Built(l, cache, op, args) ==
    /\ mode = "idle"
    /\ CommitRender(IF l.kind = "raise" THEN l.t ELSE [l.t EXCEPT !.cache = cache])
    /\ rret' = [op |-> op, kind |-> l.kind, exc |-> l.exc.type, args |-> args]
    /\ UNCHANGED <<mvars, firstOrder>>

\* lines 622-662
BuildBlock(topimg, side) ==
    \E l \in {LoadAll(RenderHeap, <<topimg, side>>)} :
        Built(l, WorkOn(WorkOn(l.t.cache, topimg, BlockTopSteps), side, BlockSideSteps),
              "build_block", <<topimg, side>>)

\* lines 664-713
BuildSlabBlock(topimg, side, upper) ==
    \E l \in {LoadAll(RenderHeap, <<topimg, side>>)} :
        Built(l, WorkOn(WorkOn(l.t.cache, side, SlabSideSteps), topimg, TransformSteps),
              "build_slab_block", <<topimg, side, upper>>)

\* lines 715-820: `cropped` when top is a tuple (image, increment); sides
\* is the tuple side1..side4
BuildFullBlock(topimg, cropped, sides, bottom) ==
    \E l \in {LoadAll(RenderHeap, <<topimg, bottom>> \o sides)} :
        LET c1 == WorkOn(l.t.cache, sides[1], FullBlockSideSteps(cropped, TRUE))
            c2 == WorkOn(c1, sides[2], FullBlockSideSteps(cropped, FALSE))
            c3 == WorkOn(c2, bottom, TransformSteps)
            c4 == WorkOn(c3, sides[3], FullBlockSideSteps(cropped, FALSE))
            c5 == WorkOn(c4, sides[4], FullBlockSideSteps(cropped, TRUE))
        IN  Built(l, WorkOn(c5, topimg, TransformSteps),
                  "build_full_block", <<topimg, cropped, sides, bottom>>)

-----------------------------------------------------------------------------
(* Rendering blocks of one session *)

ShortNames == {"block", "cube", "loom"}

\* a face refers to '#all', or to '#gone', which no texture table defines
RenderBox(n, k, from, to, fs, bad) ==
    Box(<<n, k>>, from, to,
        [f \in fs |-> [texture |-> IF f \in bad THEN Ref("gone") ELSE Ref("all")]])

\* a full cube below a lower slab; a post before a full cube of the same key
RootElements ==
    { <<RenderBox(Root, 1, <<0, 0, 0>>, <<16, 16, 16>>, AllFaces, {}),
        RenderBox(Root, 2, <<0, 0, 0>>, <<16, 8, 16>>, {"east", "south", "down"}, {})>>,
      <<RenderBox(Root, 1, <<4, 0, 4>>, <<12, 16, 12>>, {"west", "north", "up"}, {"west"}),
        RenderBox(Root, 2, <<0, 0, 0>>, <<16, 16, 16>>, AllFaces, {"north"})>> }

CubeElements ==
    { <<RenderBox(Cube, 1, <<0, 8, 0>>, <<16, 16, 16>>, {"west", "east", "up"}, {})>> }

RenderChoices(n) ==
    IF n = Root
    THEN {Missing} \cup
         {Json([textures |-> [all |-> Loc("minecraft", Stone)], elements |-> e]) :
            e \in RootElements}
    ELSE IF n = Cube
    THEN {Json([parent |-> Loc("minecraft", Root)] @@ t @@ e) :
            t \in {<<>>, [textures |-> [all |-> Loc("", Water)]]},
            e \in {<<>>} \cup {[elements |-> x] : x \in CubeElements}}
    ELSE {Missing, Json([parent |-> Loc("minecraft", Cube),
                         textures |-> [side |-> Ref("all")]])}

RenderTables ==
    {(Root :> a) @@ (Cube :> b) @@ (Loom :> c) :
        a \in RenderChoices(Root), b \in RenderChoices(Cube), c \in RenderChoices(Loom)}

RenderFiles ==
    {(TexturePath(Stone) :> a) @@ (TexturePath(Water) :> Png(16, 16)) :
        a \in {Missing, Png(16, 16), Png(16, 32)}}

RenderStates == {<<>>, [facing |-> "north"], [axis |-> "x"]}

InitRender ==
    /\ assets \in {[i \in Insts |-> a] : a \in RenderTables}
    /\ InitLoader
    /\ files \in RenderFiles
    /\ textureset = <<>>
    /\ InitTextures
    /\ rotation = 1
    /\ blockstate = <<>>
    /\ elem = <<>>
    /\ direction = ""
    /\ fret = NoFret
    /\ rret = NoRret
    /\ firstOrder = <<>>
    /\ NoExtras

NextRender ==
    \E n \in ShortNames, bs \in RenderStates : BuildBlockFromModel(1, n, bs)

RenderSpec == InitRender /\ [][NextRender]_vars

-----------------------------------------------------------------------------
(* The four builders at work on the textures of one session *)

ImageTables ==
    {(Root :> a) @@ (Cube :> b) @@ (Loom :> Missing) :
        a \in RenderChoices(Root) \ {Missing},
        b \in {Json([parent |-> Loc("minecraft", Root),
                     textures |-> [all |-> Loc("", Water)],
                     elements |-> x]) : x \in CubeElements}}

InitImages ==
    /\ assets \in {[i \in Insts |-> a] : a \in ImageTables}
    /\ InitLoader
    /\ files \in RenderFiles
    /\ textureset = <<>>
    /\ InitTextures
    /\ rotation = 1
    /\ blockstate = <<>>
    /\ elem = <<>>
    /\ direction = ""
    /\ fret = NoFret
    /\ rret = NoRret
    /\ firstOrder = <<>>
    /\ NoExtras

NextImages ==
    \/ \E n \in {"block", "cube"}, bs \in {<<>>, [axis |-> "x"]} :
          BuildBlockFromModel(1, n, bs)
    \/ \E f \in Filenames, side \in BOOLEAN :
          BuildBlock(f, IF side THEN f ELSE NoImage)
    \/ \E f \in Filenames, upper \in BOOLEAN : BuildSlabBlock(f, f, upper)
    \/ \E f \in Filenames, cropped \in BOOLEAN, present \in {{3, 4}, {1, 2, 3, 4}} :
          BuildFullBlock(f, cropped,
                         [k \in 1..4 |-> IF k \in present THEN f ELSE NoImage],
                         NoImage)

ImageSpec == InitImages /\ [][NextImages]_vars

-----------------------------------------------------------------------------
(* Claims about the builders *)

\* C12: no call of build_block_from_model, build_full_block,
\* build_slab_block or build_block changes an image the texture cache
\* holds: every cached image stays what it was when it was cached.
C12_CachedImageUntouched ==
    [][\A f \in DOMAIN texture_cache :
          texture_cache[f].kind = "image" => texture_cache'[f] = texture_cache[f]]_vars

\* build_full_block has cleared the top of four sides taken from the cache
C12_Witness ==
    /\ rret.op = "build_full_block" /\ rret.kind = "image"
    /\ rret.args[2] /\ rret.args[3][1] # NoImage
    /\ rret.args[1] \in DOMAIN firstTexture
    /\ texture_cache[rret.args[1]].img = firstTexture[rret.args[1]]

\* the sides of element e that would be drawn were none of them to fail
Wanted(e) ==
    (IF "west" \in DOMAIN e.faces THEN <<"west">>
     ELSE IF "east" \in DOMAIN e.faces THEN <<"east">> ELSE <<>>)
    \o (IF "north" \in DOMAIN e.faces THEN <<"north">>
        ELSE IF "south" \in DOMAIN e.faces THEN <<"south">> ELSE <<>>)
    \o (IF "up" \in DOMAIN e.faces THEN <<"up">>
        ELSE IF "down" \in DOMAIN e.faces THEN <<"down">> ELSE <<>>)

\* the sides of the k-th element the last rendering drew, in draw order
DrawnSides(k) ==
    LET own == SelectSeq(rret.log, LAMBDA x : x.elem = k)
    IN  [j \in DOMAIN own |-> own[j].direction]

\* drawing side d of element e hits a missing key
HitsKeyError(e, d) ==
    LET facing == RealFace(rotation, rret.blockstate, d)
        textures == models[rret.model].textures
        name == e.faces[facing].texture[2]
    IN  \/ facing \notin DOMAIN e.faces
        \/ "textures" \notin DOMAIN models[rret.model]
        \/ name \notin DOMAIN textures

\* C13: when drawing one side of an element hits a missing key, only that
\* side is skipped: every other side of the element that is due and every
\* side of the later elements is drawn.
C13_OnlyTheFaceIsSkipped ==
    (rret.op = "build_block_from_model" /\ rret.kind = "image") =>
        \A k \in DOMAIN rret.elements :
            \A j \in DOMAIN Wanted(rret.elements[k]) :
                LET d == Wanted(rret.elements[k])[j]
                IN  ~HitsKeyError(rret.elements[k], d) =>
                        \E x \in DOMAIN rret.log :
                            rret.log[x].elem = k /\ rret.log[x].direction = d

\* the key of the claim: (to.y, 16 - (from.x + to.x), 16 - (from.z + to.z))
OrderKey(e) == <<e.to[2], 16 - (e.from[1] + e.to[1]), 16 - (e.from[3] + e.to[3])>>

\* key a comes before key b
Before(a, b) ==
    \/ a[1] < b[1]
    \/ a[1] = b[1] /\ a[2] < b[2]
    \/ a[1] = b[1] /\ a[2] = b[2] /\ a[3] < b[3]

\* the elements of seq whose key is that of e, in their order in seq
OfKey(seq, e) == SelectSeq(seq, LAMBDA x : OrderKey(x) = OrderKey(e))

\* C14: build_block_from_model goes through the elements in ascending order
\* of the key, elements of one key in the order the resolved model has them,
\* and every rendering of a model goes through them in the order of its
\* first rendering, whatever was rendered in between.
C14_ElementOrder ==
    (rret.op = "build_block_from_model" /\ rret.sorted) =>
        /\ Len(rret.elements) = Len(rret.resolved)
        /\ \A a, b \in DOMAIN rret.elements :
              a < b => ~Before(OrderKey(rret.elements[b]), OrderKey(rret.elements[a]))
        /\ \A a \in DOMAIN rret.resolved :
              OfKey(rret.elements, rret.resolved[a]) = OfKey(rret.resolved, rret.resolved[a])
        /\ ElemIds(rret.elements) = firstOrder[rret.model]

\* a model whose description lists the higher element first was rendered,
\* then another model, then the first again
C14_Witness ==
    /\ rret.op = "build_block_from_model" /\ rret.sorted
    /\ rret.model = Root /\ ret.again
    /\ Cube \in DOMAIN firstOrder
    /\ ElemIds(rret.elements) = <<<<Root, 2>>, <<Root, 1>>>>

\* the sides of a rendering come element by element
ElementByElement ==
    \A x, y \in DOMAIN rret.log : x < y => rret.log[x].elem <= rret.log[y].elem

\* C15: of each element at most three sides are drawn, in the order west
\* (east when there is no west), north (south when there is no north), up
\* (down when there is no up); the second side of a pair is never drawn when
\* the element has both.
C15_FaceOrder ==
    (rret.op = "build_block_from_model" /\ rret.sorted) =>
        /\ ElementByElement
        /\ \A k \in DOMAIN rret.elements :
              LET e == rret.elements[k]
                  ds == DrawnSides(k)
                  w == Wanted(e)
              IN  /\ Len(ds) <= 3 /\ Len(ds) <= Len(w)
                  /\ ds = SubSeq(w, 1, Len(ds))
                  /\ (rret.kind = "image"
                        /\ \A j \in DOMAIN w : ~HitsKeyError(e, w[j])) => ds = w
                  /\ \A pair \in {<<"west", "east">>, <<"north", "south">>,
                                  <<"up", "down">>} :
                        {pair[1], pair[2]} \subseteq DOMAIN e.faces =>
                            \A j \in DOMAIN ds : ds[j] # pair[2]

\* an element with all six faces and one with east, south and down alone
\* were drawn in one rendering
C15_Witness ==
    /\ rret.op = "build_block_from_model" /\ rret.kind = "image"
    /\ \E k \in DOMAIN rret.elements :
          /\ DOMAIN rret.elements[k].faces = AllFaces
          /\ DrawnSides(k) = <<"west", "north", "up">>
    /\ \E k \in DOMAIN rret.elements : DrawnSides(k) = <<"east", "south", "down">>

-----------------------------------------------------------------------------
(* texture_rotation for faces that declare `rotation`, `texturerotation` *)

\* a `rotation` that is no key of the tables of lines 1206 and 1211
OddRotation == 45

Rotations == {0, 90, 180, 270}

\* the face dicts: `rotation` of the model file, `texturerotation` of
\* normalize_model (lines 900-910), each present or not
FaceInfos ==
    {[texture |-> Ref("all")] @@ r @@ t :
        r \in {<<>>} \cup {[rotation |-> x] : x \in Rotations \cup {OddRotation}},
        t \in {<<>>} \cup {[texturerotation |-> x] : x \in Rotations}}

InitTurns ==
    /\ assets = [i \in Insts |-> [n \in Names |-> Missing]]
    /\ InitLoader
    /\ NoTextures
    /\ rotation \in 0..3
    /\ blockstate \in BlockStates
    /\ elem \in {[FullCube EXCEPT !.faces = [f \in AllFaces |-> fi]] : fi \in FaceInfos}
    /\ direction \in AllFaces
    /\ fret = NoFret
    /\ rret = NoRret
    /\ firstOrder = <<>>
    /\ NoExtras

TurnSpec == InitTurns /\ [][TextureRotation]_vars

\* the face dict with d degrees more of texturerotation
Fixup(faceinfo, d) ==
    [texturerotation |-> (IF "texturerotation" \in DOMAIN faceinfo
                          THEN faceinfo.texturerotation ELSE 0) + d]
        @@ faceinfo

\* C22: the angle of texture_rotation adds up `rotation` and
\* `texturerotation` mod 360: for every side drawn, d degrees more of
\* texturerotation are d degrees more of the angle, mod 360, whether the face
\* declares `rotation` or not.
C22_RotationAccumulates ==
    (fret.fn = "texture_rotation" /\ fret.value.exc = "") =>
        \A d \in Rotations :
            texture_rotation(rotation, direction, blockstate,
                             Fixup(elem.faces[fret.facing], d))
                = [exc |-> "", angle |-> (fret.value.angle + d) % 360]

\* C29: for a side north, south, east or west of a block that faces neither
\* up nor down, a face with `rotation: 0` is turned by the angle of the same
\* face without `rotation`.
C29_RotationZeroIsNone ==
    (/\ fret.fn = "texture_rotation"
     /\ direction \in SideFaces
     /\ ~("facing" \in DOMAIN blockstate /\ blockstate.facing \in {"up", "down"})
     /\ "rotation" \in DOMAIN elem.faces[fret.facing]
     /\ elem.faces[fret.facing].rotation = 0) =>
        fret.value =
            texture_rotation(rotation, direction, blockstate,
                             [k \in DOMAIN elem.faces[fret.facing] \ {"rotation"} |->
                                 elem.faces[fret.facing][k]])

-----------------------------------------------------------------------------
(* build_texture for faces that declare `uv` *)

\* the `uv` of a face: none, the whole texture (line 899), a quarter, the middle
UvChoices == {<<>>} \cup {[uv |-> u] : u \in {<<0, 0, 16, 16>>, <<0, 0, 8, 8>>,
                                              <<4, 4, 12, 12>>}}

\* the full cube and the three half cubes, every face with the same `uv`
UvElems ==
    {[b EXCEPT !.faces = [f \in AllFaces |-> [texture |-> Ref("all")] @@ u]] :
        b \in {FullCube} \cup {[FullCube EXCEPT !.to[k] = 8] : k \in 1..3},
        u \in UvChoices}

InitUv ==
    /\ assets = [i \in Insts |-> [n \in Names |-> Missing]]
    /\ InitLoader
    /\ NoTextures
    /\ rotation \in 0..3
    /\ blockstate \in BlockStates
    /\ elem \in UvElems
    /\ direction \in AllFaces
    /\ fret = NoFret
    /\ rret = NoRret
    /\ firstOrder = <<>>
    /\ NoExtras

UvSpec == InitUv /\ [][BuildTextureCrop]_vars

\* the rectangle of the texture that is left for the face: all of it when
\* nothing is cleared
Sampled(area) == IF area = <<>> THEN <<0, 0, 16, 16>> ELSE OrderedArea(area)

\* the element with another `uv` on its faces
WithUv(e, u) ==
    [e EXCEPT !.faces = [f \in DOMAIN @ |->
                            u @@ [k \in DOMAIN @[f] \ {"uv"} |-> @[f][k]]]]

\* C23: build_texture samples the `uv` rectangle of a face that declares one
\* and the whole 16x16 texture of a face that declares none, so two faces
\* that differ in `uv` alone have different sampled rectangles.
C23_UvIsSampled ==
    fret.fn = "build_texture" =>
        /\ Sampled(fret.value) =
              IF "uv" \in DOMAIN elem.faces[fret.facing]
              THEN elem.faces[fret.facing].uv ELSE <<0, 0, 16, 16>>
        /\ \A u \in UvChoices :
              (u @@ [uv |-> <<0, 0, 16, 16>>]).uv
                    # (elem.faces[fret.facing] @@ [uv |-> <<0, 0, 16, 16>>]).uv =>
                 Sampled(BuildTextureArea(WithUv(elem, u), blockstate, fret.facing))
                    # Sampled(fret.value)

-----------------------------------------------------------------------------
(* Claims about the caches *)

\* C26: build_block_from_model leaves the model cache as it was: every model
\* that was cached before the call has the element sequence it had, in the
\* order it had.
C26_ModelCacheUntouched ==
    [][\A n \in DOMAIN models :
          /\ n \in DOMAIN models'
          /\ ElementsOf(lists', models'[n]) = ElementsOf(lists, models[n])]_vars

\* C27: load_image returns the image as it was decoded, at the size of the
\* file, whatever load_image and load_image_texture calls came before; never
\* the cropped or resized 16x16 image of load_image_texture.
C27_LoadImageDecodedSize ==
    (tret.op = "load_image" /\ tret.kind = "image") =>
        tret.img = Image(tret.file, files[tret.file].w, files[tret.file].h)

\* C28: load_model of a model that declares no `textures` table and whose
\* parent has one succeeds, and the model's texture table is then the
\* parent's.
C28_TexturesInherited ==
    [][(/\ mode = "return"
        /\ "textures" \notin DOMAIN models[stack[Len(stack)]]
        /\ "textures" \in DOMAIN models[arg]) =>
           /\ ret'.kind # "error"
           /\ "textures" \in DOMAIN models'[stack[Len(stack)]]
           /\ models'[stack[Len(stack)]].textures = models[arg].textures]_vars

-----------------------------------------------------------------------------
(* Claims about the canvas *)

\* line 931: the canvas of build_block_from_model is 24 pixels wide and high
CanvasSize == 24

\* C30: the face image draw_blockface pastes lies inside the 24x24 canvas:
\* the offset (x, y) of image_pos has 0 <= x, 0 <= y, x + width <= 24 and
\* y + height <= 24, the image being 24x12 for up and down and 12x18 for the
\* four sides.
C30_FaceInsideCanvas ==
    fret.fn = "image_pos" =>
        /\ fret.size = IF direction \in {"up", "down"} THEN <<24, 12>> ELSE <<12, 18>>
        /\ fret.value[1] >= 0 /\ fret.value[2] >= 0
        /\ fret.value[1] + fret.size[1] <= CanvasSize
        /\ fret.value[2] + fret.size[2] <= CanvasSize

\* the west face of the full cube reaches the right and the lower edge
C30_Witness ==
    /\ fret.fn = "image_pos"
    /\ direction = "west" /\ elem = FullCube
    /\ fret.value[1] + fret.size[1] = CanvasSize
    /\ fret.value[2] + fret.size[2] = CanvasSize

-----------------------------------------------------------------------------
(* find_file: the places a file is searched in *)

\* the files asked for
SearchFiles == {"a.png", "b.png"}

\* the path of the pack given as texturepath, of the k-th client jar
LocalPath == <<"texturepath">>
JarPath(k) == <<"versions", k>>

\* the texturepath of the initializer: none, a directory, a resource pack
\* (zip) or a file that is no zip; `has` are the files it holds
LocalChoices ==
    {[kind |-> "none", has |-> {}], [kind |-> "notzip", has |-> {}]}
        \cup {[kind |-> k, has |-> h] : k \in {"dir", "pack"}, h \in SUBSET SearchFiles}

\* a directory of ~/.minecraft/versions: with its jar, with a file that is no
\* zip, or without a jar
VersionChoices ==
    {[kind |-> "none", has |-> {}], [kind |-> "badzip", has |-> {}]}
        \cup {[kind |-> "jar", has |-> h] : h \in {{"a.png"}, SearchFiles}}

\* the most versions a client has installed
MaxVersions == 2

\* the installed versions, the most recent first (available_versions, line 387)
VersionLists ==
    UNION {[1..n -> VersionChoices] : n \in 0..MaxVersions}

\* a directory looked in on some platforms only: the textures directory of a
\* frozen build (line 246), /Applications/Minecraft on Darwin (line 303)
PlatformChoices ==
    {[on |-> FALSE, has |-> {}], [on |-> TRUE, has |-> {}],
     [on |-> TRUE, has |-> {"a.png"}]}

\* what os.path.isfile, os.path.isdir, sys.platform and the zip files give
Disks ==
    [data : SUBSET SearchFiles,
     frozen : PlatformChoices,
     local : LocalChoices,
     program : {{}, {"a.png"}},
     darwin : PlatformChoices,
     versions : VersionLists]

\* the files of the jar or pack at path p
Holds(d, p) == IF p = LocalPath THEN d.local.has ELSE d.versions[p[2]].has

\* the outcome of a search: the jars left open and the place the file is
\* returned from, <<"TextureException">> when it is raised
Outcome(js, f, from) == [jars |-> js, file |-> f, from |-> from]

RECURSIVE InVersions(_, _, _, _)
\* lines 313-336: the client jars from the k-th on, the most recent first
InVersions(d, js, f, k) ==
    IF k > Len(d.versions) THEN Outcome(js, f, <<"TextureException">>)
    ELSE IF d.versions[k].kind = "jar" /\ f \in d.versions[k].has
    THEN Outcome(IF \E j \in DOMAIN js : js[j] = JarPath(k)
                 THEN js ELSE Append(js, JarPath(k)),
                 f, JarPath(k))
    ELSE InVersions(d, js, f, k + 1)

\* lines 296-307: the program directory, then /Applications/Minecraft
InProgramDir(d, js, f) ==
    IF f \in d.program THEN Outcome(js, f, <<"programdir">>)
    ELSE IF d.darwin.on /\ f \in d.darwin.has THEN Outcome(js, f, <<"darwin">>)
    ELSE InVersions(d, js, f, 1)

RECURSIVE InOpenJars(_, _, _, _)
\* lines 279-289: the jars that are open already, in the order of self.jars
InOpenJars(d, js, f, k) ==
    IF k > Len(js) THEN InProgramDir(d, js, f)
    ELSE IF f \in Holds(d, js[k]) THEN Outcome(js, f, js[k])
    ELSE InOpenJars(d, js, f, k + 1)

\* lines 253-277: the texturepath of the initializer; a pack that holds the
\* file is opened and moved to the front of self.jars
InLocalPath(d, js, f) ==
    IF /\ d.local.kind = "pack"
       /\ (\A k \in DOMAIN js : js[k] # LocalPath)
       /\ f \in d.local.has
    THEN Outcome(<<LocalPath>> \o js, f, LocalPath)
    ELSE IF d.local.kind = "dir" /\ f \in d.local.has
    THEN Outcome(js, f, LocalPath)
    ELSE InOpenJars(d, js, f, 1)

\* lines 233-338: find_file(filename) with the jars js open
find_file(d, js, f) ==
    IF f \in d.data THEN Outcome(js, f, <<"data">>)
    ELSE IF d.frozen.on /\ f \in d.frozen.has THEN Outcome(js, f, <<"frozen">>)
    ELSE InLocalPath(d, js, f)

\* the most find_file calls of one run
MaxSearches == 3

InitSearch ==
    /\ assets = [i \in Insts |-> [n \in Names |-> Missing]]
    /\ InitLoader
    /\ NoTextures
    /\ rotation = 0
    /\ blockstate = <<>>
    /\ elem = <<>>
    /\ direction = ""
    /\ fret = NoFret
    /\ rret = NoRret
    /\ firstOrder = <<>>
    /\ jars = <<>>
    /\ disk \in Disks
    /\ sret = [file |-> "", from |-> <<>>, calls |-> 0]
    /\ NoBlocks
    /\ NoPixels

\* a caller looks for the file f
FindFile(f) ==
    /\ sret.calls < MaxSearches
    /\ \E r \in {find_file(disk, jars, f)} :
          /\ jars' = r.jars
          /\ sret' = [file |-> f, from |-> r.from, calls |-> sret.calls + 1]
    /\ UNCHANGED <<mvars, tvars, gvars, disk, bvars, pvars>>

NextSearch == \E f \in SearchFiles : FindFile(f)

SearchSpec == InitSearch /\ [][NextSearch]_vars

\* C24: find_file looks in the texturepath of the user before the
\* overviewer_core/data/textures directory: a file that both hold, the
\* texturepath as a directory or as a resource pack, is returned from the
\* texturepath.
C24_TexturepathFirst ==
    (/\ sret.file # ""
     /\ sret.file \in disk.data
     /\ disk.local.kind \in {"dir", "pack"}
     /\ sret.file \in disk.local.has) =>
        sret.from = LocalPath

-----------------------------------------------------------------------------
(* unbound_models: the models of the jar are given block ids *)

\* lines 37-49 after the decorators of lines 1367-6080 ran: what they
\* registered.  No renderer is registered for the ids 0 and 1, ids of the
\* range of the walls are taken, and some ids have no renderer for data 0.
Registered ==
    {{<<2, 0>>, <<2, 1>>, <<1792, 0>>} \cup x :
        x \in SUBSET {<<3, 0>>, <<2049, 0>>, <<2050, 1>>}}

\* 1792 to 2047: the range reserved for wall blocks (line 1355)
ReservedIds == 1792..2047

\* the most models find_models lists
MaxModels == 3

\* what find_models returns: the stems of the files of the jar
ModelLists == UNION {[1..n -> ShortNames] : n \in 0..MaxModels}

\* a description of block/block that is one full cube
PlainRoot ==
    Json([textures |-> [all |-> Loc("minecraft", Stone)],
          elements |-> <<RenderBox(Root, 1, <<0, 0, 0>>, <<16, 16, 16>>, AllFaces, {})>>])

\* a description of block/block without elements
BareRoot == Json([textures |-> [all |-> Loc("minecraft", Stone)]])

UnboundTables ==
    RenderTables \cup {[t EXCEPT ![Root] = r] : t \in RenderTables,
                                               r \in {PlainRoot, BareRoot}}

RECURSIVE Unclaimed(_, _)
\* lines 1353-1357: the while loop from next_unclaimed_id = n on
Unclaimed(generators, n) ==
    IF <<n, 0>> \in generators
    THEN Unclaimed(generators,
                   IF n + 1 < 2048 /\ n + 1 > 1791 THEN 2048 ELSE n + 1)
    ELSE n

\* lines 1345-1350: an element that is no full cube makes the block transparent
Transp(elements) ==
    \E k \in DOMAIN elements :
        /\ "from" \in DOMAIN elements[k] /\ "to" \in DOMAIN elements[k]
        /\ elements[k].from # <<0, 0, 0>> \/ elements[k].to # <<16, 16, 16>>

\* lines 1242-1288, 1296-1303: modelblock(blockid=id, name=model,
\* transparent=transp, solid=True) with the default data=[0]
Modelblock(id, transp) ==
    /\ used_datas' = used_datas \cup {0}
    /\ max_data' = IF 0 >= max_data THEN 1 ELSE max_data
    /\ known_blocks' = known_blocks \cup {id}
    /\ max_blockid' = IF id >= max_blockid THEN id + 1 ELSE max_blockid
    /\ transparent_blocks' = IF transp THEN transparent_blocks \cup {id}
                             ELSE transparent_blocks
    /\ solid_blocks' = solid_blocks \cup {id}
    /\ blockmap_generators' = blockmap_generators \cup {<<id, 0>>}

\* lines 1340-1343: nothing is registered for the model
NotBound(kind, model) ==
    /\ uret' = [kind |-> kind, model |-> model]
    /\ UNCHANGED <<blockmap_generators, block_models, next_unclaimed_id,
                   known_blocks, used_datas, max_blockid, max_data,
                   transparent_blocks, solid_blocks>>

\* lines 1352-1360: the model is given the next unclaimed id
Bound(id, model, elements) ==
    /\ next_unclaimed_id' = id
    /\ Modelblock(id, Transp(elements))
    /\ block_models' = (<<"minecraft:", model>> :> <<id, 0>>) @@ block_models
    /\ uret' = [kind |-> "id", model |-> model, id |-> id]

\* lines 1338-1360: one turn of the loop, for the model load_model ended on as l
Turn(l, model, n) ==
    /\ CommitModels(l, 1, n, n \in loaded)
    /\ IF l.exc # ""
       THEN NotBound("raise", model) /\ discovered' = <<>>
       ELSE /\ discovered' = Tail(discovered)
            /\ IF "elements" \notin DOMAIN l.h.models[n]
               THEN NotBound("continue", model)
               ELSE Bound(Unclaimed(blockmap_generators, next_unclaimed_id),
                          model, l.h.lists[l.h.models[n].elements])

\* lines 1338-1360: the loop of unbound_models visits the next model
UnboundModel ==
    /\ discovered # <<>>
    /\ \E model \in {Head(discovered)} :
       \E n \in {"block/" \o model} :
           Turn(load_model(Heap, 1, n), model, n)
    /\ UNCHANGED <<assets, tvars, gvars, jars, disk, sret, pvars>>

\* lines 1265-1266, 1272-1273: the greatest of the ids, of the data values
MaxOf(S) == CHOOSE x \in S : \A y \in S : y <= x

\* line 6087: unbound_models() is called when every decorator of the module
\* has run; tex = Textures() has an empty model cache
InitUnbound ==
    /\ assets \in {[i \in Insts |-> a] : a \in UnboundTables}
    /\ InitLoader
    /\ NoTextures
    /\ rotation = 0
    /\ blockstate = <<>>
    /\ elem = <<>>
    /\ direction = ""
    /\ fret = NoFret
    /\ rret = NoRret
    /\ firstOrder = <<>>
    /\ jars = <<>>
    /\ disk = <<>>
    /\ sret = NoFound
    /\ blockmap_generators \in Registered
    /\ block_models = <<>>
    /\ next_unclaimed_id = 2048
    /\ known_blocks = {g[1] : g \in blockmap_generators}
    /\ used_datas = {g[2] : g \in blockmap_generators}
    /\ max_blockid = MaxOf(known_blocks) + 1
    /\ max_data = MaxOf(used_datas) + 1
    /\ transparent_blocks = {}
    /\ solid_blocks = known_blocks
    /\ discovered \in ModelLists
    /\ uret = NoUret
    /\ NoPixels

UnboundSpec == InitUnbound /\ [][UnboundModel]_vars

\* an id a model may be given: no renderer for (id, 0), outside the range
\* of the walls
Free(generators, n) == <<n, 0>> \notin generators /\ n \notin ReservedIds

RECURSIVE LowestFree(_, _)
LowestFree(generators, n) ==
    IF Free(generators, n) THEN n ELSE LowestFree(generators, n + 1)

\* C25: a turn of unbound_models that finds a model with elements gives it
\* the lowest block id that has no renderer for data 0 and is outside
\* 1792..2047; the id was not registered before and no other model has it;
\* a model without elements gets no id.
C25_LowestUnclaimedId ==
    [][/\ uret'.kind = "id" =>
            /\ uret'.id = LowestFree(blockmap_generators, 0)
            /\ uret'.id \notin ReservedIds
            /\ \A g \in blockmap_generators : g[1] # uret'.id
            /\ \A k \in DOMAIN block_models :
                   k # <<"minecraft:", uret'.model>> => block_models[k][1] # uret'.id
       /\ uret'.kind = "continue" =>
            /\ block_models' = block_models
            /\ blockmap_generators' = blockmap_generators]_vars

\* the id of a turn is outside the range of the walls, has no renderer for
\* data 0 and is the id of no other model
IdIsNew ==
    [][uret'.kind = "id" =>
            /\ uret'.id \notin ReservedIds
            /\ <<uret'.id, 0>> \notin blockmap_generators
            /\ \A k \in DOMAIN block_models :
                   k # <<"minecraft:", uret'.model>> => block_models[k][1] # uret'.id]_vars

\* the id of a turn is the lowest free one from 2048 on
LowestFromCounter ==
    [][uret'.kind = "id" =>
            uret'.id = LowestFree(blockmap_generators, 2048)]_vars

-----------------------------------------------------------------------------
(* The pixels of the image a builder composes *)

Pixels == (0..(CanvasSize - 1)) \X (0..(CanvasSize - 1))

\* lines 627, 756, 931: Image.new("RGBA", (24, 24), self.bgcolor)
Blank == [p \in Pixels |-> <<"bgcolor", 10>>]

Inks == {"a", "b"}

\* an image as transform_image_top or transform_image_side returns it:
\* which of its pixels are opaque (all of them, the even or the odd ones
\* of a checkerboard, none), their colour and brightness, whether it was
\* flipped, and the last row of the 16x16 texture that was cleared
Picture(o, i) ==
    [opaque |-> o, ink |-> i, brightness |-> 10, flipped |-> FALSE, cleared |-> -1]

Pictures ==
    {Picture(o, i) : o \in {"all", "even", "odd"}, i \in Inks}
        \cup {Picture("none", "a")}

\* the images the six arguments of build_full_block and the faces of a
\* model are drawn from
FewPictures == {Picture("even", "a"), Picture("all", "b")}

\* ImageEnhance.Brightness(img).enhance(b / 10) with the alpha put back
Enhance(image, b) ==
    IF image = NoImage THEN NoImage ELSE [image EXCEPT !.brightness = b]

\* img.transpose(Image.FLIP_LEFT_RIGHT)
Transpose(image) ==
    IF image = NoImage THEN NoImage ELSE [image EXCEPT !.flipped = ~@]

\* lines 742-753: ImageDraw.Draw(side).rectangle((0, 0, 16, crop_height),
\* fill=(0, 0, 0, 0)) on a copy of the side
Cropped(image, crop_height) ==
    IF image = NoImage \/ crop_height < 0 THEN image
    ELSE [image EXCEPT !.cleared = crop_height]

\* lines 549-563: the row of the 16x16 texture the pixel (tx, ty) of the
\* sheared 12x18 side shows
ShearedRow(tx, ty) == ((ty - (tx + 1) \div 2) * 16) \div 12

\* whether the pixel (tx, ty) of the image is opaque
OpaqueAt(image, size, tx, ty) ==
    \E x \in {IF image.flipped THEN size[1] - 1 - tx ELSE tx} :
        /\ \/ image.opaque = "all"
           \/ image.opaque = "even" /\ (x + ty) % 2 = 0
           \/ image.opaque = "odd" /\ (x + ty) % 2 = 1
        /\ image.cleared >= 0 => ShearedRow(x, ty) > image.cleared

\* alpha_over(img, image, at, image): the opaque pixels of the image
\* replace those of the canvas c
alpha_over(c, image, at, size) ==
    [p \in Pixels |->
        IF /\ p[1] >= at[1] /\ p[1] < at[1] + size[1]
           /\ p[2] >= at[2] /\ p[2] < at[2] + size[2]
           /\ OpaqueAt(image, size, p[1] - at[1], p[2] - at[2])
        THEN <<image.ink, image.brightness>>
        ELSE c[p]]

RECURSIVE CopyPixels(_, _, _, _)
\* for x, y in list[k..]: img.putpixel((x, y), img.getpixel((x + dx, y)))
CopyPixels(c, list, k, dx) ==
    IF k > Len(list) THEN c
    ELSE CopyPixels([c EXCEPT ![list[k]] = c[<<list[k][1] + dx, list[k][2]>>]],
                    list, k + 1, dx)

\* the pixels of the first and of the second loop
FromLeft == <<<<13, 23>>, <<17, 21>>, <<21, 19>>>>
FromRight == <<<<3, 4>>, <<7, 2>>, <<11, 0>>>>

\* the second loop copying from the left as the first does
TouchUpOneWay(c) == CopyPixels(CopyPixels(c, FromLeft, 1, -1), FromRight, 1, -1)

\* lines 653-660, 811-818, 953-960: the six pixels are touched up
TouchUp(c) == CopyPixels(CopyPixels(c, FromLeft, 1, -1), FromRight, 1, 1)

Slot(image, at, size) == [image |-> image, at |-> at, size |-> size]

\* lines 629-651: the images build_block pastes, in order
BlockSlots(topimg, side) ==
    IF side = NoImage THEN <<Slot(topimg, <<0, 0>>, <<24, 12>>)>>
    ELSE <<Slot(topimg, <<0, 0>>, <<24, 12>>),
           Slot(Enhance(side, 9), <<0, 6>>, <<12, 18>>),
           Slot(Enhance(Transpose(side), 8), <<12, 6>>, <<12, 18>>)>>

\* lines 737-739: int(round((top[1] / 16.) * 12.)), 0 when top is no tuple
Increment(lift) == IF lift = <<>> THEN 0 ELSE (lift[1] * 12 + 8) \div 16

\* lines 737-809: the images build_full_block pastes, in order; the sides
\* are cropped when top is a tuple
FullBlockSlots(a) ==
    LET crop == IF a.lift = <<>> THEN -1 ELSE Increment(a.lift)
    IN  <<Slot(Enhance(Transpose(Cropped(a.side1, crop)), 9), <<0, 0>>, <<12, 18>>),
          Slot(Enhance(Cropped(a.side2, crop), 8), <<12, 0>>, <<12, 18>>),
          Slot(a.bottom, <<0, 12>>, <<24, 12>>),
          Slot(Enhance(Cropped(a.side3, crop), 9), <<0, 6>>, <<12, 18>>),
          Slot(Enhance(Transpose(Cropped(a.side4, crop)), 8), <<12, 6>>, <<12, 18>>),
          Slot(a.top, <<0, Increment(a.lift)>>, <<24, 12>>)>>

\* the elements of the models whose faces are pasted
PastedElems == {FullCube, [FullCube EXCEPT !.to[2] = 8]}

\* lines 964-972: where draw_blockface pastes a face and how large it is,
\* without blockstate
Placings ==
    {[at |-> image_pos(d, e, d), size |-> TransformTextureSize(d)] :
        d \in AllFaces, e \in PastedElems}

\* the most faces one model has drawn
MaxDraws == 2

\* a builder is called
Call(fn, slots, touch) ==
    /\ cret = NoCret
    /\ canvas' = Blank
    /\ builder' = [fn |-> fn, pc |-> 1, slots |-> slots, touch |-> touch]
    /\ UNCHANGED <<mvars, tvars, gvars, jars, disk, sret, bvars, cret>>

\* line 622: build_block(top, side)
BuildBlockCall ==
    /\ builder = Idle
    /\ \E topimg \in Pictures, side \in Pictures \cup {NoImage} :
          Call("build_block", BlockSlots(topimg, side), side # NoImage)

\* line 715: build_full_block(top, side1, side2, side3, side4, bottom)
BuildFullBlockCall ==
    /\ builder = Idle
    /\ \E a \in [top : FewPictures \cup {NoImage}, side1 : FewPictures \cup {NoImage},
              side2 : FewPictures \cup {NoImage}, side3 : FewPictures \cup {NoImage},
              side4 : FewPictures \cup {NoImage}, bottom : FewPictures \cup {NoImage},
              lift : {<<>>, <<8>>}] :
          /\ a.lift # <<>> => a.top # NoImage
          /\ Call("build_full_block", FullBlockSlots(a), TRUE)

\* lines 920-931: build_block_from_model of a model with elements
BuildBlockFromModelCall ==
    /\ builder = Idle
    /\ Call("build_block_from_model", <<>>, TRUE)

\* the next alpha_over of build_block or build_full_block; an argument
\* that is None is passed over
AlphaOver ==
    /\ builder.fn \in {"build_block", "build_full_block"}
    /\ builder.pc <= Len(builder.slots)
    /\ \E s \in {builder.slots[builder.pc]} :
          canvas' = IF s.image = NoImage THEN canvas
                    ELSE alpha_over(canvas, s.image, s.at, s.size)
    /\ builder' = [builder EXCEPT !.pc = @ + 1]
    /\ UNCHANGED <<mvars, tvars, gvars, jars, disk, sret, bvars, cret>>

\* lines 964-972: draw_blockface pastes one more face of the model
DrawFace ==
    /\ builder.fn = "build_block_from_model"
    /\ builder.pc <= MaxDraws
    /\ \E s \in Placings, image \in FewPictures :
          canvas' = alpha_over(canvas, image, s.at, s.size)
    /\ builder' = [builder EXCEPT !.pc = @ + 1]
    /\ UNCHANGED <<mvars, tvars, gvars, jars, disk, sret, bvars, cret>>

\* lines 635-637, 653-662, 811-820, 953-962: every image is pasted; the
\* pixels are touched up, unless build_block has no side, and img is returned
ReturnImg ==
    /\ builder.fn # ""
    /\ builder.fn # "build_block_from_model" => builder.pc > Len(builder.slots)
    /\ cret' = [fn |-> builder.fn, touched |-> builder.touch, before |-> canvas,
                img |-> IF builder.touch THEN TouchUp(canvas) ELSE canvas]
    /\ builder' = Idle
    /\ canvas' = <<>>
    /\ UNCHANGED <<mvars, tvars, gvars, jars, disk, sret, bvars>>

InitPixels ==
    /\ assets = [i \in Insts |-> [n \in Names |-> Missing]]
    /\ InitLoader
    /\ NoTextures
    /\ NoFaces

NextPixels ==
    \/ BuildBlockCall
    \/ BuildFullBlockCall
    \/ BuildBlockFromModelCall
    \/ AlphaOver
    \/ DrawFace
    \/ ReturnImg

PixelSpec == InitPixels /\ [][NextPixels]_vars

\* C21: in every image build_block (called with a side), build_full_block
\* and build_block_from_model (of a model with elements) return, the pixels
\* (13,23), (17,21), (21,19) equal their left neighbour and the pixels
\* (3,4), (7,2), (11,0) their right neighbour, whatever was pasted before.
C21_TouchedUp ==
    cret.touched =>
        /\ \A k \in DOMAIN FromLeft :
               cret.img[FromLeft[k]] = cret.img[<<FromLeft[k][1] - 1, FromLeft[k][2]>>]
        /\ \A k \in DOMAIN FromRight :
               cret.img[FromRight[k]] = cret.img[<<FromRight[k][1] + 1, FromRight[k][2]>>]

\* build_block_from_model returned an image in which, before the touch-up,
\* a pixel of each loop differed from its neighbour
C21_Witness ==
    /\ cret.touched /\ cret.fn = "build_block_from_model"
    /\ cret.before[<<13, 23>>] # cret.before[<<12, 23>>]
    /\ cret.before[<<3, 4>>] # cret.before[<<4, 4>>]
    /\ cret.img # cret.before

====
